---- MODULE Spec2Model ----
(***************************************************************************)
(* Model of klassenbuch_pdf_parsing.py, the extraction of a                *)
(* Themendokumentation PDF (parse_date, parse_header, _words_in_col,       *)
(* _first_dozent, parse_rows_from_page, extract_pdf), its storage in the   *)
(* database (execute_pdf_into_db, PGConnector.execute_pdf) and the loop of *)
(* main, and of sql_in_excel_export.py, the weekly report sheets           *)
(* (group_by_calendar_week, _clear_data_cells, _fill_sheet,                *)
(* create_berichtsheft, create_all_berichtshefte).                         *)
(*                                                                         *)
(* Python str values are TLA+ strings, handled character by character.     *)
(* Python lists are sequences, dicts are records, None is the value None.  *)
(* A call that raises is the record [ok |-> FALSE, err |-> message]; a     *)
(* call that returns is [ok |-> TRUE, val |-> value].                      *)
(* Coordinates are points; the inputs use even integers, so the midpoint   *)
(* (a + b) / 2 of two tops is an integer and \div is exact.                *)
(***************************************************************************)
EXTENDS Integers, Sequences, FiniteSets, TLC

VARIABLES
    fields,      \* the header fields printed on the first page of the PDF
    text,        \* page.extract_text() of the first page
    words,       \* page.extract_words(): sequence of [text, x0, top, bottom]
    header,      \* outcome of the call parse_header(text), or NotCalled
    rows,        \* outcome of the call parse_rows_from_page(page), or NotCalled
    boundaries,  \* the local `boundaries` of that call (<<>> if it raised before)
    pdf_data,    \* outcome of the call extract_pdf(pdf_path), or NotCalled
    cell_words,  \* the argument of a call _first_dozent(raw_words)
    dozent_text, \* the local `text` of that call after the label is stripped
    dozent,      \* outcome of that call, or NotCalled
    db,          \* the committed rows of the five tables and the SERIAL sequences
    cache,       \* the dict of make_db_cache() shared by the PDFs of a run
    run,         \* number of the run of main() that is under way
    stored,      \* the documents execute_pdf has stored so far, with their run
    affected,    \* outcome of the last call connector.execute_pdf, or NotCalled
    failed,      \* the calls of execute_pdf that raised: document, run, fail_at
    dozent_ids,  \* every <<name, id>> that _get_or_create_dozent has returned
    pdf_paths,   \* the files named on the command line of main()
    path_index,  \* the position of main's loop `for path in pdf_paths`
    use_db,      \* main's use_db: store in the database, or print statements
    print_state, \* main's print_state, a PrintState
    all_statements, \* main's list all_statements
    fetched,     \* the list of Lerntag objects fetch_all has returned
    template_found, \* whether berichtsheft_template.xlsx is a file
    week_nr,     \* the nr of the next pass of create_all_berichtshefte's loop
    sheet,       \* the worksheet the last call create_berichtsheft saved
    cell_writes, \* the cell assignments _fill_sheet made in that call
    berichtsheft \* outcome of the last call create_berichtsheft, or NotCalled

extractVars == <<fields, text, words, header, rows, boundaries, pdf_data>>
nameVars == <<cell_words, dozent_text, dozent>>
storeVars == <<db, cache, run, stored, affected, failed, dozent_ids>>
batchVars == <<pdf_paths, path_index, use_db, print_state, all_statements>>
sheetVars == <<fetched, template_found, week_nr, sheet, cell_writes, berichtsheft>>
vars == <<extractVars, nameVars, storeVars, batchVars, sheetVars>>

None == "<None>"
NotCalled == [ok |-> FALSE, err |-> "<not called>"]
Return(v) == [ok |-> TRUE, val |-> v]
Raise(msg) == [ok |-> FALSE, err |-> msg]

(***************************************************************************)
(* Python str primitives                                                   *)
(***************************************************************************)
char(s, i) == SubSeq(s, i, i)

\* s[a-1:b] in Python terms: characters a..b (1-based, inclusive), clipped.
Slice(s, a, b) ==
    LET hi == IF b > Len(s) THEN Len(s) ELSE b
    IN  IF a < 1 \/ a > hi THEN "" ELSE SubSeq(s, a, hi)

DecimalDigits == {"0", "1", "2", "3", "4", "5", "6", "7", "8", "9"}
\* Characters for which str.isdigit() is True but which int() rejects
\* (Unicode Numeric_Type=Digit, e.g. superscripts).
NonDecimalDigits == {"²"}
Letters ==
    {"a", "b", "c", "d", "e", "f", "g", "h", "i", "j", "k", "l", "m",
     "n", "o", "p", "q", "r", "s", "t", "u", "v", "w", "x", "y", "z",
     "A", "B", "C", "D", "E", "F", "G", "H", "I", "J", "K", "L", "M",
     "N", "O", "P", "Q", "R", "S", "T", "U", "V", "W", "X", "Y", "Z"}
\* regex \s, \d, \w
Whitespace == {" ", "\n", "\t"}
IsSpace(c) == c \in Whitespace
IsDigitChar(c) == c \in DecimalDigits
IsWordChar(c) == c \in Letters \cup DecimalDigits \cup NonDecimalDigits \cup {"_"}

\* str.isdigit()
isdigit(s) ==
    /\ Len(s) > 0
    /\ \A i \in 1..Len(s) : char(s, i) \in DecimalDigits \cup NonDecimalDigits

DigitVal(c) ==
    CASE c = "0" -> 0 [] c = "1" -> 1 [] c = "2" -> 2 [] c = "3" -> 3
      [] c = "4" -> 4 [] c = "5" -> 5 [] c = "6" -> 6 [] c = "7" -> 7
      [] c = "8" -> 8 [] c = "9" -> 9

\* int(s) for a string that passed isdigit(): raises unless every character
\* is a decimal digit.
RECURSIVE IntVal(_)
IntVal(s) ==
    IF s = "" THEN 0
    ELSE 10 * IntVal(Slice(s, 1, Len(s) - 1)) + DigitVal(char(s, Len(s)))

IntRaises(s) == \E i \in 1..Len(s) : char(s, i) \notin DecimalDigits

\* str.strip()
RECURSIVE lstrip(_)
lstrip(s) ==
    IF s # "" /\ IsSpace(char(s, 1)) THEN lstrip(Slice(s, 2, Len(s))) ELSE s

RECURSIVE rstrip(_)
rstrip(s) ==
    IF s # "" /\ IsSpace(char(s, Len(s))) THEN rstrip(Slice(s, 1, Len(s) - 1)) ELSE s

strip(s) == lstrip(rstrip(s))

\* sep.join(list)
RECURSIVE join(_, _)
join(sep, list) ==
    IF list = <<>> THEN ""
    ELSE IF Len(list) = 1 THEN list[1]
    ELSE list[1] \o sep \o join(sep, Tail(list))

\* Length of the leading run of non-whitespace characters of s.
RECURSIVE WordLen(_)
WordLen(s) ==
    IF s = "" \/ IsSpace(char(s, 1)) THEN 0 ELSE 1 + WordLen(Slice(s, 2, Len(s)))

\* str.split(): split on runs of whitespace, no empty strings.
RECURSIVE split(_)
split(s) ==
    LET t == lstrip(s)
        n == WordLen(t)
    IN  IF t = "" THEN <<>>
        ELSE <<Slice(t, 1, n)>> \o split(Slice(t, n + 1, Len(t)))

\* Index of the first occurrence of the one-character string c in s, 0 if none.
find(s, c) ==
    IF \E i \in 1..Len(s) : char(s, i) = c
    THEN CHOOSE i \in 1..Len(s) :
             /\ char(s, i) = c
             /\ \A j \in 1..(i - 1) : char(s, j) # c
    ELSE 0

(***************************************************************************)
(* Constants                                                               *)
(***************************************************************************)
COL_STUNDE == <<30, 74>>
COL_LEHRINHALTE == <<74, 359>>
COL_DOZENT == <<459, 549>>

HEADER_NOISE ==
    {"Stunde", "Lehrinhalte", "Lernformat/-methodik",
     "Lernformat/", "-methodik", "Dozent",
     "Unterrichtsbeginn:", "08:30"}

FooterCutoff == 650
DefaultTableBottom == 600
FirstRowLookback == 30

(***************************************************************************)
(* Word-based table extraction                                             *)
(***************************************************************************)
\* The same texts in the opposite order.
RECURSIVE _words_in_col_reversed(_, _, _, _, _)
_words_in_col_reversed(ws, x0, x1, y0, y1) ==
    IF ws = <<>> THEN <<>>
    ELSE LET w == Head(ws)
             rest == _words_in_col_reversed(Tail(ws), x0, x1, y0, y1)
         IN  IF x0 <= w.x0 /\ w.x0 < x1 /\ y0 <= w.top /\ w.top < y1
             THEN rest \o <<w.text>>
             ELSE rest

\* Texts of all words whose x0 is inside [x0,x1) and top is in [y0,y1),
\* in the order of `words`.
RECURSIVE _words_in_col(_, _, _, _, _)
_words_in_col(ws, x0, x1, y0, y1) ==
    IF ws = <<>> THEN <<>>
    ELSE LET w == Head(ws)
             rest == _words_in_col(Tail(ws), x0, x1, y0, y1)
         IN  IF x0 <= w.x0 /\ w.x0 < x1 /\ y0 <= w.top /\ w.top < y1
             THEN <<w.text>> \o rest
             ELSE rest

\* A match of the regex \bDozent\b starts at character i of s.
DozentAt(s, i) ==
    /\ Slice(s, i, i + 5) = "Dozent"
    /\ (i = 1 \/ ~IsWordChar(char(s, i - 1)))
    /\ (i + 6 > Len(s) \/ ~IsWordChar(char(s, i + 6)))

\* The same with nothing substituted.
SubDozentKeep(s, i) == Slice(s, i, Len(s))

\* re.sub(r"\bDozent\b", "", s), scanning from character i.
RECURSIVE SubDozent(_, _)
SubDozent(s, i) ==
    IF i > Len(s) THEN ""
    ELSE IF DozentAt(s, i) THEN SubDozent(s, i + 6)
    ELSE char(s, i) \o SubDozent(s, i + 1)

\* The same without the cut.
BeforeRepeatKeepAll(vorname_words, nachname) == vorname_words

\* vorname_words cut before the first word equal to nachname.
RECURSIVE BeforeRepeat(_, _)
BeforeRepeat(vorname_words, nachname) ==
    IF vorname_words = <<>> \/ Head(vorname_words) = nachname THEN <<>>
    ELSE <<Head(vorname_words)>> \o BeforeRepeat(Tail(vorname_words), nachname)

\* The local `text` once the label is stripped from the joined words.
InstructorText(raw_words) == strip(SubDozent(join(" ", raw_words), 1))

\* _first_dozent taking the first word of a comma-free text as nachname.
_first_dozent_first_word(raw_words) ==
    LET txt == InstructorText(raw_words)
        comma == find(txt, ",")
    IN  IF txt = "" THEN <<"", "">>
        ELSE IF comma > 0
        THEN LET nachname == strip(Slice(txt, 1, comma - 1))
                 rest == Slice(txt, comma + 1, Len(txt))
                 vorname_words == BeforeRepeat(split(strip(rest)), nachname)
             IN  <<nachname, strip(join(" ", vorname_words))>>
        ELSE LET parts == split(txt)
             IN  <<parts[1], join(" ", Tail(parts))>>

\* Returns <<nachname, vorname>>.
_first_dozent(raw_words) ==
    LET txt == strip(SubDozent(join(" ", raw_words), 1))
        comma == find(txt, ",")
    IN  IF txt = "" THEN <<"", "">>
        ELSE IF comma > 0
        THEN LET nachname == strip(Slice(txt, 1, comma - 1))
                 rest == Slice(txt, comma + 1, Len(txt))
                 vorname_words == BeforeRepeat(split(strip(rest)), nachname)
             IN  <<nachname, strip(join(" ", vorname_words))>>
        ELSE LET parts == split(txt)
             IN  <<IF parts # <<>> THEN parts[Len(parts)] ELSE "",
                   join(" ", SubSeq(parts, 1, Len(parts) - 1))>>

\* The same with the right edge of the Stunde column included.
IsStundeClosedBand(w) ==
    /\ isdigit(w.text)
    /\ 1 <= IntVal(w.text) /\ IntVal(w.text) <= 9
    /\ COL_STUNDE[1] <= w.x0 /\ w.x0 <= COL_STUNDE[2]

\* The condition of the list comprehension that locates stunde numbers.
IsStunde(w) ==
    /\ isdigit(w.text)
    /\ 1 <= IntVal(w.text) /\ IntVal(w.text) <= 9
    /\ COL_STUNDE[1] <= w.x0 /\ w.x0 < COL_STUNDE[2]

\* int() raises inside the comprehension: some word passes isdigit() but is
\* no decimal number (the test of x0 comes after the call of int()).
StundeIntRaises(ws) ==
    \E i \in 1..Len(ws) : isdigit(ws[i].text) /\ IntRaises(ws[i].text)

\* [(int(w["text"]), w["top"]) for w in words if ...]
StundeList(ws) ==
    LET sel == SelectSeq(ws, IsStunde)
    IN  [i \in 1..Len(sel) |-> <<IntVal(sel[i].text), sel[i].top>>]

\* Insert x into the sorted list s behind every element whose key is <= x's
\* key: Python's sort is stable.
InsertByKey(s, x) ==
    LET k == Cardinality({i \in 1..Len(s) : s[i][1] <= x[1]})
    IN  SubSeq(s, 1, k) \o <<x>> \o SubSeq(s, k + 1, Len(s))

\* sorted(list) without key=: tuples compare by number, then by top.
InsertByTuple(s, x) ==
    LET k == Cardinality({i \in 1..Len(s) :
                 s[i][1] < x[1] \/ (s[i][1] = x[1] /\ s[i][2] <= x[2])})
    IN  SubSeq(s, 1, k) \o <<x>> \o SubSeq(s, k + 1, Len(s))

\* sorted(list, key=lambda x: x[1]): by vertical position.
InsertByTop(s, x) ==
    LET k == Cardinality({i \in 1..Len(s) : s[i][2] <= x[2]})
    IN  SubSeq(s, 1, k) \o <<x>> \o SubSeq(s, k + 1, Len(s))

RECURSIVE sorted_by_top(_)
sorted_by_top(list) ==
    IF list = <<>> THEN <<>>
    ELSE InsertByTop(sorted_by_top(SubSeq(list, 1, Len(list) - 1)),
                     list[Len(list)])

RECURSIVE sorted_by_tuple(_)
sorted_by_tuple(list) ==
    IF list = <<>> THEN <<>>
    ELSE InsertByTuple(sorted_by_tuple(SubSeq(list, 1, Len(list) - 1)),
                       list[Len(list)])

\* sorted(list, key=lambda x: x[0])
RECURSIVE sorted_by_nr(_)
sorted_by_nr(list) ==
    IF list = <<>> THEN <<>>
    ELSE InsertByKey(sorted_by_nr(SubSeq(list, 1, Len(list) - 1)),
                     list[Len(list)])

\* Deduplicate: keep only the first occurrence of each number.
RECURSIVE Dedup(_, _)
Dedup(stunden, seen) ==
    IF stunden = <<>> THEN <<>>
    ELSE LET nr == Head(stunden)[1]
         IN  IF nr \notin seen
             THEN <<Head(stunden)>> \o Dedup(Tail(stunden), seen \cup {nr})
             ELSE Dedup(Tail(stunden), seen)

SetMax(S) == CHOOSE m \in S : \A n \in S : n <= m

\* Approximate bottom of the table.
table_bottom(ws) ==
    LET bottoms == {ws[i].bottom : i \in {j \in 1..Len(ws) : ws[j].bottom < FooterCutoff}}
    IN  IF bottoms = {} THEN DefaultTableBottom ELSE SetMax(bottoms)

\* y-ranges using midpoints: <<nr, y_start, y_end>> per stunde.
Boundaries(stunden, bottom) ==
    [i \in 1..Len(stunden) |->
        LET top == stunden[i][2]
            y_start == IF i > 1 THEN (stunden[i - 1][2] + top) \div 2
                       ELSE top - FirstRowLookback
            y_end == IF i + 1 <= Len(stunden) THEN (top + stunden[i + 1][2]) \div 2
                     ELSE bottom
        IN  <<stunden[i][1], y_start, y_end>>]

\* Remove header-row noise.
NotNoise(t) == t \notin HEADER_NOISE

RowOf(ws, b) ==
    LET inhalt_words == SelectSeq(_words_in_col(ws, COL_LEHRINHALTE[1], COL_LEHRINHALTE[2], b[2], b[3]), NotNoise)
        dozent_words == _words_in_col(ws, COL_DOZENT[1], COL_DOZENT[2], b[2], b[3])
        name == _first_dozent(dozent_words)
    IN  [stunde |-> b[1],
         inhalt |-> join(" ", inhalt_words),
         dozent_vorname |-> name[2],
         dozent_nachname |-> name[1]]

\* The local `boundaries` of parse_rows_from_page, <<>> if it raises earlier.
BoundariesOf(ws) ==
    IF StundeIntRaises(ws) THEN <<>>
    ELSE Boundaries(Dedup(sorted_by_nr(StundeList(ws)), {}), table_bottom(ws))

ErrInt == "invalid literal for int() with base 10"
ErrNoStunde == "No stunde numbers (1-9) found in Stunde column"

parse_rows_from_page(ws) ==
    IF StundeIntRaises(ws) THEN Raise(ErrInt)
    ELSE IF sorted_by_nr(StundeList(ws)) = <<>> THEN Raise(ErrNoStunde)
    ELSE LET bs == BoundariesOf(ws)
         IN  Return([i \in 1..Len(bs) |-> RowOf(ws, bs[i])])

(***************************************************************************)
(* Generic helpers: parse_date                                             *)
(***************************************************************************)
\* The regex \d{2}\.\d{2}\.\d{4} matches s at character j.
IsDateAt(s, j) ==
    /\ j + 9 <= Len(s)
    /\ \A d \in {0, 1, 3, 4, 6, 7, 8, 9} : IsDigitChar(char(s, j + d))
    /\ char(s, j + 2) = "." /\ char(s, j + 5) = "."

IsLeap(y) == (y % 4 = 0 /\ y % 100 # 0) \/ y % 400 = 0

DaysInMonth(m, y) ==
    IF m = 2 THEN (IF IsLeap(y) THEN 29 ELSE 28)
    ELSE IF m \in {4, 6, 9, 11} THEN 30 ELSE 31

\* The decimal representation of n, zero-padded to `width` characters.
RECURSIVE ZeroPad(_, _)
ZeroPad(n, width) ==
    IF width = 0 THEN ""
    ELSE ZeroPad(n \div 10, width - 1) \o char("0123456789", (n % 10) + 1)

ErrDateFormat == "time data does not match format '%d.%m.%Y'"
ErrDateRange == "day or year is out of range"

\* The same conversion with the format "%m.%d.%Y": month first.
parse_date_month_first(raw) ==
    LET r == strip(raw)
        m == IntVal(Slice(r, 1, 2))
        d == IntVal(Slice(r, 4, 5))
        y == IntVal(Slice(r, 7, 10))
    IN  IF ~(Len(r) = 10 /\ IsDateAt(r, 1)) THEN Raise(ErrDateFormat)
        ELSE IF d < 1 \/ d > 31 \/ m < 1 \/ m > 12 THEN Raise(ErrDateFormat)
        ELSE IF y < 1 \/ d > DaysInMonth(m, y) THEN Raise(ErrDateRange)
        ELSE Return(ZeroPad(y, 4) \o "-" \o ZeroPad(m, 2) \o "-" \o ZeroPad(d, 2))

\* datetime.strptime(raw.strip(), "%d.%m.%Y").strftime("%Y-%m-%d") for a raw
\* string of the shape dd.mm.yyyy, which is what the two regexes pass in.
\* %d accepts 01..31, %m accepts 01..12, %Y any four digits; the datetime
\* constructor then rejects year 0 and days beyond the month's length.
\* %Y is written with four digits (years from 1000 on, on every platform).
parse_date(raw) ==
    LET r == strip(raw)
        d == IntVal(Slice(r, 1, 2))
        m == IntVal(Slice(r, 4, 5))
        y == IntVal(Slice(r, 7, 10))
    IN  IF ~(Len(r) = 10 /\ IsDateAt(r, 1)) THEN Raise(ErrDateFormat)
        ELSE IF d < 1 \/ d > 31 \/ m < 1 \/ m > 12 THEN Raise(ErrDateFormat)
        ELSE IF y < 1 \/ d > DaysInMonth(m, y) THEN Raise(ErrDateRange)
        ELSE Return(ZeroPad(y, 4) \o "-" \o ZeroPad(m, 2) \o "-" \o ZeroPad(d, 2))

(***************************************************************************)
(* Header parsing (regex on raw page text)                                 *)
(***************************************************************************)
\* End of a greedy \s* that starts at character j: the first character from
\* j on that is no whitespace (Len(s) + 1 if there is none).
RECURSIVE SkipSpace(_, _)
SkipSpace(s, j) ==
    IF j <= Len(s) /\ IsSpace(char(s, j)) THEN SkipSpace(s, j + 1) ELSE j

\* End of a greedy [-\w]* that starts at character j.
RECURSIVE SkipCode(_, _)
SkipCode(s, j) ==
    IF j <= Len(s) /\ (IsWordChar(char(s, j)) \/ char(s, j) = "-")
    THEN SkipCode(s, j + 1) ELSE j

SetMin(S) == CHOOSE m \in S : \A n \in S : m <= n

NoMatch == [found |-> FALSE]

\* DATUM_RE.search(s): the leftmost match of  Datum:\s*(\d{2}\.\d{2}\.\d{4}).
DATUM_RE_search(s) ==
    LET DateStart(i) == SkipSpace(s, i + 6)
        starts == {i \in 1..Len(s) :
                      Slice(s, i, i + 5) = "Datum:" /\ IsDateAt(s, DateStart(i))}
    IN  IF starts = {} THEN NoMatch
        ELSE LET j == DateStart(SetMin(starts))
             IN  [found |-> TRUE, g1 |-> Slice(s, j, j + 9)]

\* \s*$ (MULTILINE) matches at character e: after some whitespace comes the
\* end of the text or a newline.
EndsLine(s, e) ==
    \E t \in e..SkipSpace(s, e) : t = Len(s) + 1 \/ char(s, t) = "\n"

\* (?:\s+(date)-(date)?)?\s*$ at character e with the optional group taken:
\* "both" dates, the "start" date only, or "none" if the group cannot match.
RangeAt(s, e) ==
    LET w == SkipSpace(s, e)
    IN  IF ~(w > e /\ IsDateAt(s, w) /\ char(s, w + 10) = "-") THEN "none"
        ELSE IF IsDateAt(s, w + 11) /\ EndsLine(s, w + 21) THEN "both"
        ELSE IF EndsLine(s, w + 11) THEN "start"
        ELSE "none"

\* The ends e (exclusive) at which the lazy (.+?) that starts at m can stop:
\* at least one character, no newline, and the rest of the regex matches.
TitleEnds(s, m) ==
    {e \in (m + 1)..(Len(s) + 1) :
        /\ \A c \in m..(e - 1) : char(s, c) # "\n"
        /\ (RangeAt(s, e) # "none" \/ EndsLine(s, e))}

\* A greedy (.+) would stop at the last possible end.
TitleEndGreedy(s, m) == SetMax(TitleEnds(s, m))

\* The lazy (.+?) stops at the first possible end.
TitleEnd(s, m) == SetMin(TitleEnds(s, m))

\* TITEL_RE matched from character i on, in the order the backtracking
\* matcher tries: \s* and [-\w]* and \s+ greedy (only \s+ can give back
\* characters usefully), (.+?) lazy, the optional range group first.
TITEL_RE_match(s, i) ==
    LET j == SkipSpace(s, i + 6)
        k == SkipCode(s, j + 2)
        ms == {m \in (k + 1)..SkipSpace(s, k) : TitleEnds(s, m) # {}}
    IN  IF ~(Slice(s, i, i + 5) = "Titel:" /\ Slice(s, j, j + 1) = "LF" /\ ms # {})
        THEN NoMatch
        ELSE LET m == SetMax(ms)
                 e == TitleEnd(s, m)
                 w == SkipSpace(s, e)
                 r == RangeAt(s, e)
             IN  [found |-> TRUE,
                  g1 |-> Slice(s, j, k - 1),
                  g2 |-> Slice(s, m, e - 1),
                  g3 |-> IF r = "none" THEN None ELSE Slice(s, w, w + 9),
                  g4 |-> IF r = "both" THEN Slice(s, w + 11, w + 20) ELSE None]

\* TITEL_RE.search(s): the leftmost match.
TITEL_RE_search(s) ==
    LET starts == {i \in 1..Len(s) : TITEL_RE_match(s, i).found}
    IN  IF starts = {} THEN NoMatch ELSE TITEL_RE_match(s, SetMin(starts))

ErrDatum == "Datum not found in PDF header"
ErrTitel == "Titel / Lernfeld not found in PDF header"

\* parse_date(raw) if raw else None
OptDate(raw) == IF raw = None THEN Return(None) ELSE parse_date(raw)

\* parse_header with the two range groups taken in the wrong order.
parse_header_groups_swapped(s) ==
    LET datum_m == DATUM_RE_search(s)
        titel_m == TITEL_RE_search(s)
    IN  IF ~datum_m.found THEN Raise(ErrDatum)
        ELSE IF ~titel_m.found THEN Raise(ErrTitel)
        ELSE LET datum == parse_date(datum_m.g1)
                 start_datum == OptDate(titel_m.g4)
                 end_datum == OptDate(titel_m.g3)
             IN  IF ~datum.ok THEN datum
                 ELSE IF ~start_datum.ok THEN start_datum
                 ELSE IF ~end_datum.ok THEN end_datum
                 ELSE Return([datum |-> datum.val,
                              lernfeld_id |-> titel_m.g1,
                              titel |-> strip(titel_m.g2),
                              start_datum |-> start_datum.val,
                              end_datum |-> end_datum.val])

parse_header(s) ==
    LET datum_m == DATUM_RE_search(s)
        titel_m == TITEL_RE_search(s)
    IN  IF ~datum_m.found THEN Raise(ErrDatum)
        ELSE IF ~titel_m.found THEN Raise(ErrTitel)
        ELSE LET datum == parse_date(datum_m.g1)
                 start_datum == OptDate(titel_m.g3)
                 end_datum == OptDate(titel_m.g4)
             IN  IF ~datum.ok THEN datum
                 ELSE IF ~start_datum.ok THEN start_datum
                 ELSE IF ~end_datum.ok THEN end_datum
                 ELSE Return([datum |-> datum.val,
                              lernfeld_id |-> titel_m.g1,
                              titel |-> strip(titel_m.g2),
                              start_datum |-> start_datum.val,
                              end_datum |-> end_datum.val])

(***************************************************************************)
(* PDF entry point                                                         *)
(***************************************************************************)
\* The dict display evaluates parse_header before parse_rows_from_page.
extract_pdf(s, ws) ==
    LET pdf_dict(h, r) ==
            IF ~h.ok THEN h
            ELSE IF ~r.ok THEN r
            ELSE Return([header |-> h.val, rows |-> r.val])
    IN  pdf_dict(parse_header(s), parse_rows_from_page(ws))

(***************************************************************************)
(* DB-execute path: the statements act on the tables as PostgreSQL does.   *)
(* A table is the set of its rows.  A SERIAL column takes the next value   *)
(* of its sequence on every INSERT that is tried, also when ON CONFLICT    *)
(* DO NOTHING then drops the row.                                          *)
(***************************************************************************)
make_db_cache == [lernfelder |-> {}, dozenten |-> <<>>, lerntage |-> <<>>, lf_doz |-> {}]

\* The schema without a row, its sequences at their start.
EmptyDb ==
    [lernfeld |-> {}, dozent |-> {}, lernfeld_dozent |-> {}, lerntag |-> {},
     unterrichtseinheit |-> {},
     dozent_seq |-> 1, lerntag_seq |-> 1, einheit_seq |-> 1]

\* The rows of the five tables.
Tables(d) ==
    [lernfeld |-> d.lernfeld, dozent |-> d.dozent,
     lernfeld_dozent |-> d.lernfeld_dozent, lerntag |-> d.lerntag,
     unterrichtseinheit |-> d.unterrichtseinheit]

\* st is [db, cache, affected, executed, fail_at, raised]: what the cursor
\* sees, the cache, the count, the number of cur.execute calls made so far,
\* which of them raises psycopg2.Error (the first call is 1; 0: none does)
\* and whether one has raised.  A call that raises leaves no trace, and no
\* statement runs after it.
Raises(st) == st.executed + 1 = st.fail_at
Ran(st) == [st EXCEPT !.executed = @ + 1]
Raised(st) == [st EXCEPT !.executed = @ + 1, !.raised = TRUE]

\* _get_or_create_dozent with the INSERT made without the SELECT before it.
_get_or_create_dozent_no_select(st, vorname, nachname) ==
    LET key == <<vorname, nachname>>
        new_id == st.db.dozent_seq
    IN  IF st.raised THEN [st |-> st, did |-> 0]
        ELSE IF key \in DOMAIN st.cache.dozenten
        THEN [st |-> st, did |-> st.cache.dozenten[key]]
        ELSE IF Raises(st) THEN [st |-> Raised(st), did |-> 0]
        ELSE [st |-> [Ran(st) EXCEPT
                        !.db.dozent = @ \cup {[dozent_id |-> new_id, vorname |-> vorname, nachname |-> nachname]},
                        !.db.dozent_seq = @ + 1,
                        !.cache.dozenten = (key :> new_id) @@ @],
              did |-> new_id]

\* Returns [st, did]; did is not read when the call has raised.  The SELECT
\* has at most one row to find as long as the table holds no two rows of one
\* name.
_get_or_create_dozent(st, vorname, nachname) ==
    LET key == <<vorname, nachname>>
        found == {r \in st.db.dozent : r.vorname = vorname /\ r.nachname = nachname}
        new_id == st.db.dozent_seq
    IN  IF st.raised THEN [st |-> st, did |-> 0]
        ELSE IF key \in DOMAIN st.cache.dozenten
        THEN [st |-> st, did |-> st.cache.dozenten[key]]
        ELSE IF Raises(st) THEN [st |-> Raised(st), did |-> 0]
        ELSE IF found # {}
        THEN LET did == (CHOOSE r \in found : TRUE).dozent_id
             IN  [st |-> [Ran(st) EXCEPT !.cache.dozenten = (key :> did) @@ @], did |-> did]
        ELSE IF Raises(Ran(st)) THEN [st |-> Raised(Ran(st)), did |-> 0]
        ELSE [st |-> [Ran(Ran(st)) EXCEPT
                        !.db.dozent = @ \cup {[dozent_id |-> new_id, vorname |-> vorname, nachname |-> nachname]},
                        !.db.dozent_seq = @ + 1,
                        !.cache.dozenten = (key :> new_id) @@ @],
              did |-> new_id]

\* INSERT INTO lernfeld ... ON CONFLICT (lernfeld_id) DO NOTHING, unless cached.
InsertLernfeld(st, hdr) ==
    LET conflict == \E r \in st.db.lernfeld : r.lernfeld_id = hdr.lernfeld_id
        row == [lernfeld_id |-> hdr.lernfeld_id, titel |-> hdr.titel,
                start_datum |-> hdr.start_datum, end_datum |-> hdr.end_datum]
    IN  IF st.raised \/ hdr.lernfeld_id \in st.cache.lernfelder THEN st
        ELSE IF Raises(st) THEN Raised(st)
        ELSE [Ran(st) EXCEPT
                !.db.lernfeld = IF conflict THEN @ ELSE @ \cup {row},
                !.affected = IF conflict THEN @ ELSE @ + 1,
                !.cache.lernfelder = @ \cup {hdr.lernfeld_id}]

\* One pass of the loop over dozent_keys: resolve the name, link it to lf_id.
LinkDozent(st, lf_id, key) ==
    LET link(s, did) ==
            LET combo == <<lf_id, did>>
                conflict == \E r \in s.db.lernfeld_dozent :
                                r.lernfeld_id = lf_id /\ r.dozent_id = did
            IN  IF s.raised \/ combo \in s.cache.lf_doz THEN s
                ELSE IF Raises(s) THEN Raised(s)
                ELSE [Ran(s) EXCEPT
                        !.db.lernfeld_dozent =
                            IF conflict THEN @ ELSE @ \cup {[lernfeld_id |-> lf_id, dozent_id |-> did]},
                        !.affected = IF conflict THEN @ ELSE @ + 1,
                        !.cache.lf_doz = @ \cup {combo}]
        linked(g) == link(g.st, g.did)
    IN  linked(_get_or_create_dozent(st, key[1], key[2]))

\* The loop over dozent_keys, taken in the order `keys`.
RECURSIVE LinkDozenten(_, _, _)
LinkDozenten(st, lf_id, keys) ==
    IF keys = <<>> THEN st
    ELSE LinkDozenten(LinkDozent(st, lf_id, Head(keys)), lf_id, Tail(keys))

\* The lerntag section: INSERT ... ON CONFLICT (datum) DO NOTHING RETURNING
\* lerntag_id, else SELECT the id of the row of that datum; unless cached.
InsertLerntag(st, hdr, rws) ==
    LET day(s, day_dozent) ==
            LET existing == {r \in s.db.lerntag : r.datum = hdr.datum}
                new_id == s.db.lerntag_seq
                inserted == [Ran(s) EXCEPT !.db.lerntag_seq = @ + 1]
            IN  IF s.raised THEN s
                ELSE IF Raises(s) THEN Raised(s)
                ELSE IF existing = {}
                THEN [inserted EXCEPT
                        !.db.lerntag =
                            @ \cup {[lerntag_id |-> new_id, datum |-> hdr.datum,
                                     lernfeld_id |-> hdr.lernfeld_id, dozent_id |-> day_dozent]},
                        !.affected = @ + 1,
                        !.cache.lerntage = (hdr.datum :> new_id) @@ @]
                ELSE IF Raises(inserted) THEN Raised(inserted)
                ELSE [Ran(inserted) EXCEPT
                        !.affected = @ + 1,
                        !.cache.lerntage =
                            (hdr.datum :> (CHOOSE r \in existing : TRUE).lerntag_id) @@ @]
        of(g) == day(g.st, g.did)
    IN  IF st.raised \/ hdr.datum \in DOMAIN st.cache.lerntage THEN st
        ELSE of(_get_or_create_dozent(st, rws[1].dozent_vorname, rws[1].dozent_nachname))

\* The same INSERT without its ON CONFLICT clause taking effect.
InsertEinheitAlways(st, lt_id, row) ==
    IF st.raised THEN st
    ELSE IF Raises(st) THEN Raised(st)
    ELSE [Ran(st) EXCEPT
            !.db.unterrichtseinheit =
                @ \cup {[einheit_id |-> st.db.einheit_seq, lerntag_id |-> lt_id,
                         stunde |-> row.stunde, inhalt |-> row.inhalt]},
            !.db.einheit_seq = @ + 1,
            !.affected = @ + 1]

\* INSERT INTO unterrichtseinheit ... ON CONFLICT (lerntag_id, stunde) DO NOTHING
InsertEinheit(st, lt_id, row) ==
    LET conflict == \E u \in st.db.unterrichtseinheit :
                        u.lerntag_id = lt_id /\ u.stunde = row.stunde
    IN  IF st.raised THEN st
        ELSE IF Raises(st) THEN Raised(st)
        ELSE [Ran(st) EXCEPT
                !.db.unterrichtseinheit =
                    IF conflict THEN @
                    ELSE @ \cup {[einheit_id |-> st.db.einheit_seq, lerntag_id |-> lt_id,
                                  stunde |-> row.stunde, inhalt |-> row.inhalt]},
                !.db.einheit_seq = @ + 1,
                !.affected = IF conflict THEN @ ELSE @ + 1]

\* The loop over rows.
RECURSIVE InsertEinheiten(_, _, _)
InsertEinheiten(st, lt_id, rws) ==
    IF rws = <<>> THEN st
    ELSE InsertEinheiten(InsertEinheit(st, lt_id, Head(rws)), lt_id, Tail(rws))

\* The set dozent_keys of a document.
DozentKeys(rws) == {<<rws[i].dozent_vorname, rws[i].dozent_nachname>> : i \in 1..Len(rws)}

\* The orders in which a for loop may meet the elements of the set S.
IterationOrders(S) ==
    {f \in [1..Cardinality(S) -> S] : \A i, j \in 1..Cardinality(S) : f[i] = f[j] => i = j}

\* The body of execute_pdf_into_db on a cursor whose fail_at-th cur.execute
\* raises (0: none does); dozent_order is the order in which the loop meets
\* dozent_keys.  Returns st.
Statements(pdf, d, c, dozent_order, fail_at) ==
    LET units(s) ==
            IF s.raised THEN s
            ELSE InsertEinheiten(s, s.cache.lerntage[pdf.header.datum], pdf.rows)
    IN  units(InsertLerntag(
                LinkDozenten(
                    InsertLernfeld([db |-> d, cache |-> c, affected |-> 0,
                                    executed |-> 0, fail_at |-> fail_at, raised |-> FALSE],
                                   pdf.header),
                    pdf.header.lernfeld_id, dozent_order),
                pdf.header, pdf.rows))

\* Returns [db, cache, affected]: the call on a cursor that never raises.
execute_pdf_into_db(pdf, d, c, dozent_order) ==
    LET returned(st) == [db |-> st.db, cache |-> st.cache, affected |-> st.affected]
    IN  returned(Statements(pdf, d, c, dozent_order, 0))

ErrDb == "DB error"

\* PGConnector.execute_pdf: conn.commit() is one more call that may raise.
\* conn.rollback() takes the rows of the tables back to those of d; a value
\* taken from a sequence is not given back, and the cache is not touched.
\* Returns [db, cache, outcome].
execute_pdf(pdf, d, c, dozent_order, fail_at) ==
    LET closed(st) ==
            IF st.raised \/ Raises(st)
            THEN [db |-> [d EXCEPT !.dozent_seq = st.db.dozent_seq,
                                   !.lerntag_seq = st.db.lerntag_seq,
                                   !.einheit_seq = st.db.einheit_seq],
                  cache |-> st.cache,
                  outcome |-> Raise(ErrDb)]
            ELSE [db |-> st.db, cache |-> st.cache, outcome |-> Return(st.affected)]
    IN  closed(Statements(pdf, d, c, dozent_order, fail_at))

\* The <<name, id>> pairs that the calls of _get_or_create_dozent have
\* returned: a call returns what it finds in or puts into cache["dozenten"].
Returned(c) == {<<key, c.dozenten[key]>> : key \in DOMAIN c.dozenten}

\* The number of calls (cur.execute, then conn.commit) that execute_pdf makes
\* when none raises.
CallsOf(pdf, d, c, dozent_order) == Statements(pdf, d, c, dozent_order, 0).executed + 1

(***************************************************************************)
(* Print / dry-run path                                                    *)
(***************************************************************************)
\* text.replace("'", "''")
RECURSIVE sql_escape(_)
sql_escape(t) ==
    IF t = "" THEN ""
    ELSE (IF char(t, 1) = "'" THEN "''" ELSE char(t, 1)) \o sql_escape(Slice(t, 2, Len(t)))

\* str(n) of an int n >= 0, as an f-string prints it.
RECURSIVE str_int(_)
str_int(n) ==
    IF n < 10 THEN char("0123456789", n + 1)
    ELSE str_int(n \div 10) \o char("0123456789", (n % 10) + 1)

\* PrintState()
PrintState ==
    [lernfelder |-> <<>>, dozenten |-> <<>>, lerntage |-> <<>>, lf_doz |-> {},
     dozent_seq |-> 1, lerntag_seq |-> 1, einheit_seq |-> 1]

\* acc is [state, stmts]: the PrintState and the local list stmts.
PrintLernfeld(acc, hdr) ==
    LET lf_id == hdr.lernfeld_id
        start_val == IF hdr.start_datum # None THEN "'" \o hdr.start_datum \o "'" ELSE "NULL"
        end_val == IF hdr.end_datum # None THEN "'" \o hdr.end_datum \o "'" ELSE "NULL"
    IN  IF lf_id \in DOMAIN acc.state.lernfelder THEN acc
        ELSE [state |-> [acc.state EXCEPT !.lernfelder = (lf_id :> TRUE) @@ @],
              stmts |-> Append(acc.stmts,
                  "INSERT INTO lernfeld (lernfeld_id, titel, start_datum, end_datum) "
                  \o "VALUES ('" \o lf_id \o "', '" \o sql_escape(hdr.titel) \o "', "
                  \o start_val \o ", " \o end_val \o ") "
                  \o "ON CONFLICT (lernfeld_id) DO NOTHING;")]

\* One pass of the first loop over rows.
PrintDozent(acc, lf_id, row) ==
    LET key == <<row.dozent_vorname, row.dozent_nachname>>
        a1 == IF key \in DOMAIN acc.state.dozenten THEN acc
              ELSE [state |-> [acc.state EXCEPT
                                  !.dozenten = (key :> acc.state.dozent_seq) @@ @,
                                  !.dozent_seq = @ + 1],
                    stmts |-> Append(acc.stmts,
                        "INSERT INTO dozent (vorname, nachname) "
                        \o "VALUES ('" \o sql_escape(key[1]) \o "', '" \o sql_escape(key[2]) \o "') "
                        \o "ON CONFLICT DO NOTHING;")]
        did == a1.state.dozenten[key]
        combo == <<lf_id, did>>
    IN  IF combo \in a1.state.lf_doz THEN a1
        ELSE [state |-> [a1.state EXCEPT !.lf_doz = @ \cup {combo}],
              stmts |-> Append(a1.stmts,
                  "INSERT INTO lernfeld_dozent (lernfeld_id, dozent_id) "
                  \o "SELECT '" \o lf_id \o "', dozent_id FROM dozent "
                  \o "WHERE vorname='" \o sql_escape(key[1]) \o "' AND nachname='" \o sql_escape(key[2]) \o "' "
                  \o "LIMIT 1 "
                  \o "ON CONFLICT (lernfeld_id, dozent_id) DO NOTHING;")]

RECURSIVE PrintDozenten(_, _, _)
PrintDozenten(acc, lf_id, rws) ==
    IF rws = <<>> THEN acc
    ELSE PrintDozenten(PrintDozent(acc, lf_id, Head(rws)), lf_id, Tail(rws))

PrintLerntag(acc, hdr, rws) ==
    LET first == rws[1]
    IN  IF hdr.datum \in DOMAIN acc.state.lerntage THEN acc
        ELSE [state |-> [acc.state EXCEPT
                            !.lerntage = (hdr.datum :> acc.state.lerntag_seq) @@ @,
                            !.lerntag_seq = @ + 1],
              stmts |-> Append(acc.stmts,
                  "INSERT INTO lerntag (datum, lernfeld_id, dozent_id) "
                  \o "SELECT '" \o hdr.datum \o "', '" \o hdr.lernfeld_id \o "', dozent_id "
                  \o "FROM dozent "
                  \o "WHERE vorname='" \o sql_escape(first.dozent_vorname) \o "' "
                  \o "AND nachname='" \o sql_escape(first.dozent_nachname) \o "' "
                  \o "LIMIT 1 "
                  \o "ON CONFLICT (datum) DO NOTHING;")]

\* The second loop over rows.
RECURSIVE PrintEinheiten(_, _, _)
PrintEinheiten(acc, datum, rws) ==
    IF rws = <<>> THEN acc
    ELSE PrintEinheiten(
             [acc EXCEPT !.stmts = Append(@,
                 "INSERT INTO unterrichtseinheit (lerntag_id, stunde, inhalt) "
                 \o "SELECT lerntag_id, " \o str_int(Head(rws).stunde) \o ", '" \o sql_escape(Head(rws).inhalt) \o "' "
                 \o "FROM lerntag WHERE datum='" \o datum \o "' "
                 \o "ON CONFLICT (lerntag_id, stunde) DO NOTHING;")],
             datum, Tail(rws))

\* Returns [state, stmts]: the PrintState as the call leaves it, the list it
\* returns.
build_print_statements(pdf, state) ==
    LET a0 == [state |-> state, stmts |-> <<>>]
        a1 == PrintLernfeld(a0, pdf.header)
        a2 == PrintDozenten(a1, pdf.header.lernfeld_id, pdf.rows)
        a3 == PrintLerntag(a2, pdf.header, pdf.rows)
    IN  PrintEinheiten(a3, pdf.header.datum, pdf.rows)

(***************************************************************************)
(* main: the loop over the PDFs                                            *)
(***************************************************************************)
\* The pass with the "-- Source" line appended before the extraction.
main_loop_body_source_first(path, usedb, sh, dozent_order) ==
    LET named == [sh EXCEPT !.all_statements = Append(@, "-- Source: " \o path.name)]
        stored_in_db(r, e) ==
            [pdf_data |-> r,
             sh |-> [sh EXCEPT !.db = e.db, !.cache = e.cache, !.affected = Return(e.affected)]]
        printed(r, b) ==
            [pdf_data |-> r,
             sh |-> [sh EXCEPT
                       !.print_state = b.state,
                       !.all_statements = named.all_statements \o b.stmts \o <<"">>]]
        pass(r) ==
            IF ~path.exists THEN [pdf_data |-> NotCalled, sh |-> sh]
            ELSE IF ~r.ok THEN [pdf_data |-> r, sh |-> IF usedb THEN sh ELSE named]
            ELSE IF usedb
            THEN stored_in_db(r, execute_pdf_into_db(r.val, sh.db, sh.cache, dozent_order))
            ELSE printed(r, build_print_statements(r.val, sh.print_state))
    IN  pass(extract_pdf(path.text, path.words))

\* sh is [db, cache, affected, print_state, all_statements].  Returns [pdf_data, sh]:
\* the outcome of extract_pdf (NotCalled for a missing file) and what the
\* pass leaves behind.
main_loop_body(path, usedb, sh, dozent_order) ==
    LET stored_in_db(r, e) ==
            [pdf_data |-> r,
             sh |-> [sh EXCEPT !.db = e.db, !.cache = e.cache, !.affected = Return(e.affected)]]
        printed(r, b) ==
            [pdf_data |-> r,
             sh |-> [sh EXCEPT
                       !.print_state = b.state,
                       !.all_statements =
                           @ \o <<"-- Source: " \o path.name>> \o b.stmts \o <<"">>]]
        pass(r) ==
            IF ~path.exists THEN [pdf_data |-> NotCalled, sh |-> sh]
            ELSE IF ~r.ok THEN [pdf_data |-> r, sh |-> sh]
            ELSE IF usedb
            THEN stored_in_db(r, execute_pdf_into_db(r.val, sh.db, sh.cache, dozent_order))
            ELSE printed(r, build_print_statements(r.val, sh.print_state))
    IN  pass(extract_pdf(path.text, path.words))

(***************************************************************************)
(* sql_in_excel_export.py: the weekly report sheets (Berichtshefte)        *)
(*                                                                         *)
(* A datetime.date is the record [year, month, day]; an Optional value is  *)
(* a sequence of at most one element; a worksheet is the record [cells,    *)
(* title], cells a function from <<row, column>> to the cell's value.      *)
(***************************************************************************)
\* date.toordinal(): day 1 is 01.01.0001 of the proleptic Gregorian calendar.
DaysBeforeYear(y) ==
    (y - 1) * 365 + (y - 1) \div 4 - (y - 1) \div 100 + (y - 1) \div 400

RECURSIVE DaysBeforeMonth(_, _)
DaysBeforeMonth(y, m) ==
    IF m = 1 THEN 0 ELSE DaysBeforeMonth(y, m - 1) + DaysInMonth(m - 1, y)

toordinal(d) == DaysBeforeYear(d.year) + DaysBeforeMonth(d.year, d.month) + d.day

\* date.fromordinal(n), the result of date + timedelta
fromordinal(n) ==
    LET in_year(y) ==
            LET rest == n - DaysBeforeYear(y)
                m == CHOOSE m \in 1..12 :
                         /\ DaysBeforeMonth(y, m) < rest
                         /\ rest <= DaysBeforeMonth(y, m) + DaysInMonth(m, y)
            IN  [year |-> y, month |-> m, day |-> rest - DaysBeforeMonth(y, m)]
    IN  in_year(CHOOSE y \in (n \div 366)..(n \div 365 + 1) :
                    DaysBeforeYear(y) < n /\ n <= DaysBeforeYear(y + 1))

\* date.weekday(): Monday is 0, Sunday is 6.
weekday(d) == (toordinal(d) + 6) % 7

\* The ordinal of the Monday of ISO week 1: the week with the year's first
\* Thursday.
_isoweek1monday(year) ==
    LET firstday == DaysBeforeYear(year) + 1
        firstweekday == (firstday + 6) % 7
        week1monday == firstday - firstweekday
    IN  IF firstweekday > 3 THEN week1monday + 7 ELSE week1monday

\* date.isocalendar(): <<ISO year, ISO week, ISO weekday>>
isocalendar(d) ==
    LET today == toordinal(d)
        week == (today - _isoweek1monday(d.year)) \div 7
        day == (today - _isoweek1monday(d.year)) % 7
    IN  IF week < 0
        THEN <<d.year - 1,
               (today - _isoweek1monday(d.year - 1)) \div 7 + 1,
               ((today - _isoweek1monday(d.year - 1)) % 7) + 1>>
        ELSE IF week >= 52 /\ today >= _isoweek1monday(d.year + 1)
        THEN <<d.year + 1, 1, day + 1>>
        ELSE <<d.year, week + 1, day + 1>>

\* f"{n:02d}" of an int n >= 0: at least two digits.
two_digits(n) == IF n < 10 THEN "0" \o str_int(n) ELSE str_int(n)

\* d.strftime('%d.%m.%Y')
strftime(d) == two_digits(d.day) \o "." \o two_digits(d.month) \o "." \o str_int(d.year)

\* Lerntag.calendar_week, Lerntag.year and Lerntag.year_week
calendar_week(lt) == isocalendar(lt.datum)[2]

year(lt) == isocalendar(lt.datum)[1]

year_week(lt) == str_int(year(lt)) \o "-KW" \o two_digits(calendar_week(lt))

\* Dozent.full_name
full_name(doz) == doz.vorname \o " " \o doz.nachname

\* a < b of two year_week keys: Python compares str values by the code
\* points of their characters, which for these keys stand in the order "-",
\* "0" to "9", "K", "W".
RECURSIVE str_lt(_, _)
str_lt(a, b) ==
    LET ord(c) == CHOOSE i \in 1..13 : char("-0123456789KW", i) = c
    IN  IF b = "" THEN FALSE
        ELSE IF a = "" THEN TRUE
        ELSE IF char(a, 1) = char(b, 1)
        THEN str_lt(Slice(a, 2, Len(a)), Slice(b, 2, Len(b)))
        ELSE ord(char(a, 1)) < ord(char(b, 1))

\* group_by_calendar_week(lerntage): the dict as a function from its keys;
\* every list keeps the order of lerntage.
group_by_calendar_week(lerntage) ==
    [kw \in {year_week(lerntage[i]) : i \in 1..Len(lerntage)} |->
        SelectSeq(lerntage, LAMBDA lt : year_week(lt) = kw)]

\* [year_week for year_week, _ in sorted(by_kw.items())]
sorted_weeks(by_kw) ==
    LET at(n) == CHOOSE kw \in DOMAIN by_kw :
                     Cardinality({other \in DOMAIN by_kw : str_lt(other, kw)}) = n - 1
    IN  [n \in 1..Cardinality(DOMAIN by_kw) |-> at(n)]

\* s.split(sep) of a str in which sep occurs once
split_once(s, sep) ==
    LET at(i) == <<Slice(s, 1, i - 1), Slice(s, i + Len(sep), Len(s))>>
    IN  at(CHOOSE i \in 1..Len(s) : Slice(s, i, i + Len(sep) - 1) = sep)

\* Mutation of _DAY_FIRST_ROW: the blocks lie ten rows apart.
_DAY_FIRST_ROW_ten_apart == (0 :> 4) @@ (1 :> 14) @@ (2 :> 24) @@ (3 :> 34) @@ (4 :> 44)

\* Template layout: the first row of each weekday block (Mon = 0 .. Fri = 4)
_DAY_FIRST_ROW == (0 :> 4) @@ (1 :> 15) @@ (2 :> 26) @@ (3 :> 37) @@ (4 :> 48)

_ROWS_PER_DAY == 11

_CONTENT_COL == 2

_HOURS_COL == 10

TotalRow == 59

DayNames == <<"Montag", "Dienstag", "Mittwoch", "Donnerstag", "Freitag">>

\* The cells _clear_data_cells sets to None
ClearedCells ==
    {<<1, 4>>, <<1, 6>>, <<2, 6>>, <<TotalRow, _HOURS_COL>>}
    \cup {<<_DAY_FIRST_ROW[day_idx] + offset, column>> :
             day_idx \in DOMAIN _DAY_FIRST_ROW, offset \in 0..(_ROWS_PER_DAY - 1),
             column \in {_CONTENT_COL, _HOURS_COL}}

\* The worksheet of berichtsheft_template.xlsx: what its variable cells hold
\* is not known; every one of them is cleared before it is filled.
Template == [cells |-> [c \in ClearedCells |-> "<template>"], title |-> "<template>"]

\* _clear_data_cells(ws)
_clear_data_cells(ws) ==
    [ws EXCEPT !.cells = [c \in DOMAIN @ |-> IF c \in ClearedCells THEN None ELSE @[c]]]

\* ws.cell(row=row, column=column).value = value, with a record of the
\* assignment and of the pass of _fill_sheet that made it.
SetCell(sh, row, column, value, pass) ==
    [ws |-> [sh.ws EXCEPT !.cells[<<row, column>>] = value],
     writes |-> Append(sh.writes, [row |-> row, column |-> column,
                                   value |-> value, pass |-> pass])]

\* sorted(lt.einheiten, key=lambda e: e.stunde): Python's sort is stable, a
\* unit goes behind every unit whose stunde is <= its own.
RECURSIVE sorted_by_stunde(_)
sorted_by_stunde(list) ==
    LET insert(s, e) ==
            LET k == Cardinality({i \in 1..Len(s) : s[i].stunde <= e.stunde})
            IN  SubSeq(s, 1, k) \o <<e>> \o SubSeq(s, k + 1, Len(s))
    IN  IF list = <<>> THEN <<>>
        ELSE insert(sorted_by_stunde(SubSeq(list, 1, Len(list) - 1)), list[Len(list)])

\* The loop that builds day_map: a later Lerntag of the same weekday
\* replaces an earlier one; Saturdays and Sundays are left out.
day_map_of(week_lerntage) ==
    LET on(wd) == {i \in 1..Len(week_lerntage) : weekday(week_lerntage[i].datum) = wd}
    IN  [wd \in {wd \in 0..4 : on(wd) # {}} |-> week_lerntage[SetMax(on(wd))]]

\* The loop `for offset in range(_ROWS_PER_DAY)` of one day block: the
\* offsets below len(einheiten), in ascending order, get two assignments
\* each, the content cell before the hours cell.
FillRows(acc, einheiten, first_row, day_name) ==
    LET written == {offset \in 0..(_ROWS_PER_DAY - 1) : offset < Len(einheiten)}
        offset_of(k) == (k - 1) \div 2
        assignment(k) ==
            [row |-> first_row + offset_of(k),
             column |-> IF k % 2 = 1 THEN _CONTENT_COL ELSE _HOURS_COL,
             value |-> IF k % 2 = 1 THEN einheiten[offset_of(k) + 1].inhalt ELSE 1,
             pass |-> day_name]
        value_of(c, old) ==
            IF c[1] - first_row \notin written THEN old
            ELSE IF c[2] = _CONTENT_COL THEN einheiten[c[1] - first_row + 1].inhalt
            ELSE IF c[2] = _HOURS_COL THEN 1
            ELSE old
    IN  [sh |-> [ws |-> [acc.sh.ws EXCEPT !.cells =
                            [c \in DOMAIN @ |-> value_of(c, @[c])]],
                 writes |-> acc.sh.writes
                            \o [k \in 1..(2 * Cardinality(written)) |-> assignment(k)]],
         total_hours |-> acc.total_hours + Cardinality(written)]

\* The loop `for day_idx, first_row in _DAY_FIRST_ROW.items()`
RECURSIVE FillDays(_, _, _)
FillDays(acc, day_map, day_idx) ==
    IF day_idx \notin DOMAIN _DAY_FIRST_ROW THEN acc
    ELSE FillDays(FillRows(acc,
                           IF day_idx \in DOMAIN day_map
                           THEN sorted_by_stunde(day_map[day_idx].einheiten) ELSE <<>>,
                           _DAY_FIRST_ROW[day_idx], DayNames[day_idx + 1]),
                  day_map, day_idx + 1)

\* "Woche vom ... bis ...": Monday to Friday of ISO week kw_number of kw_year
date_range(kw_number, kw_year) ==
    LET jan4 == [year |-> kw_year, month |-> 1, day |-> 4]
        range(week_mon) ==
            "Woche vom " \o strftime(fromordinal(week_mon))
            \o " bis " \o strftime(fromordinal(week_mon + 4))
    IN  range(toordinal(jan4) + 7 * (kw_number - isocalendar(jan4)[2]) - weekday(jan4))

\* _fill_sheet(ws, week_lerntage, kw_number, kw_year, report_nr): the filled
\* worksheet and the cell assignments in the order they were made.  The
\* character U+2013 of lf_part is written "--".
_fill_sheet(ws, week_lerntage, kw_number, kw_year, report_nr) ==
    LET first_of(list) == IF list = <<>> THEN <<>> ELSE <<list[1]>>
        lf_sample == first_of(SelectSeq(week_lerntage, LAMBDA lt : lt.lernfeld # <<>>))
        doz_sample == first_of(SelectSeq(week_lerntage, LAMBDA lt : lt.dozent # <<>>))
        lf_part == IF lf_sample # <<>>
                   THEN "\n" \o lf_sample[1].lernfeld[1].lernfeld_id \o " -- "
                        \o lf_sample[1].lernfeld[1].titel
                   ELSE ""
        doz_name == IF doz_sample # <<>> THEN full_name(doz_sample[1].dozent[1]) ELSE ""
        headed == SetCell(SetCell(SetCell([ws |-> ws, writes |-> <<>>],
                      1, 4, "Nr. " \o str_int(report_nr), "header"),
                      1, 6, date_range(kw_number, kw_year) \o lf_part, "header"),
                      2, 6, "Ausbilder: " \o doz_name, "header")
        titled(acc) ==
            LET sh == SetCell(acc.sh, TotalRow, _HOURS_COL, acc.total_hours, "total")
            IN  [sh EXCEPT !.ws.title = "KW" \o two_digits(kw_number) \o " " \o str_int(kw_year)]
    IN  titled(FillDays([sh |-> headed, total_hours |-> 0], day_map_of(week_lerntage), 0))

\* create_berichtsheft(lerntage, year_week, output_path, report_nr,
\* template_path): the outcome, the saved worksheet and the assignments.
create_berichtsheft(lerntage, kw, report_nr, isfile) ==
    LET saved(sh) == [outcome |-> Return(None), ws |-> sh.ws, writes |-> sh.writes]
        parts == split_once(kw, "-KW")
        get(by_kw) == IF kw \in DOMAIN by_kw THEN by_kw[kw] ELSE <<>>
    IN  IF ~isfile
        THEN [outcome |-> Raise("Template not found"), ws |-> Template, writes |-> <<>>]
        ELSE saved(_fill_sheet(_clear_data_cells(Template),
                               get(group_by_calendar_week(lerntage)),
                               IntVal(parts[2]), IntVal(parts[1]), report_nr))

(***************************************************************************)
(* Inputs: the words of a page                                             *)
(***************************************************************************)
MaxWords == 3
MaxDocWords == 2

\* A word as pdfplumber's extract_words() gives it; the glyphs are 10 high.
Word(t, x, y) == [text |-> t, x0 |-> x, top |-> y, bottom |-> y + 10]

\* Words in and around the Stunde column [30, 74).
StundeWords ==
    {Word("1", 30, 100), Word("1", 30, 300), Word("2", 30, 200),
     Word("2", 73, 100), Word("3", 30, 300), Word("3", 30, 640),
     Word("01", 30, 200), Word("0", 30, 100), Word("10", 30, 100),
     Word("²", 30, 100), Word("1", 29, 100), Word("1", 74, 200),
     Word("Stunde", 30, 100)}

\* Words in and around the Lehrinhalte column [74, 359).
LehrinhalteWords ==
    {Word("Thema", 74, 100), Word("Inhalt", 358, 200), Word("Thema", 74, 150),
     Word("Lehrinhalte", 74, 100), Word("08:30", 100, 200),
     Word("Thema", 359, 100)}

\* Words in and around the Dozent column [459, 549).
DozentWords ==
    {Word("Meier,", 459, 100), Word("Anna", 500, 100), Word("Anna", 500, 70),
     Word("Dozent", 459, 100), Word("Stunde", 459, 200),
     Word("Meier", 549, 100)}

WordPool == StundeWords \cup LehrinhalteWords \cup DozentWords

\* The words of the whole-document runs.
DocWordPool ==
    {Word("1", 30, 100), Word("2", 30, 200), Word("0", 30, 100),
     Word("²", 30, 100), Word("1", 74, 200), Word("Thema", 74, 100),
     Word("Meier,", 459, 100)}

\* All sequences over S of length at most n.
SeqsUpTo(S, n) == UNION {[1..k -> S] : k \in 0..n}

\* The words of an instructor cell: a name, its repetition by a wrapped
\* line, the column label, and the label inside a longer word.
MaxNameWords == 4
NameTokens ==
    {"Schmidt,", "Schmidt", "Anna", "Mueller",
     "Dozent", "Dozent,", "Dozent-Vertretung", "Dozenten"}

(***************************************************************************)
(* Inputs: the text of a page, built from its header fields                *)
(***************************************************************************)
\* Strings of the shape dd.mm.yyyy that are calendar dates, and that are not.
CalendarDates == {"05.03.2024", "29.02.2024", "01.03.2024", "05.04.2024"}
ImpossibleDates == {"31.02.2024", "29.02.2023", "00.01.2024", "05.13.2024", "01.01.0000"}
ShapedDates == CalendarDates \cup ImpossibleDates

\* The Datum field: a label and what follows it.
DatumFields ==
    [label : {"Datum: "},
     date : {"05.03.2024", "29.02.2024", "31.02.2024", "00.01.2024", "01.01.0000", "5.3.2024"}]
    \cup {[label |-> "", date |-> "05.03.2024"], [label |-> "Datum:", date |-> ""],
          [label |-> "Datum:", date |-> "05.03.2024"],
          [label |-> "Datum: ", date |-> "05.13.2024"]}

\* The date range behind the title: both dates, the start only, or nothing.
RangeFields ==
    {[start |-> "", end |-> ""],
     [start |-> "01.03.2024", end |-> "05.04.2024"],
     [start |-> "01.03.2024", end |-> ""],
     [start |-> "29.02.2023", end |-> "05.04.2024"],
     [start |-> "01.03.2024", end |-> "31.02.2024"]}

\* The Titel line: label, unit code, title words, range, trailing blanks.
TitelFields ==
    [label : {"Titel: "}, code : {"LF12", "LF-3a"}, title : {"Grundlagen", "Netze und  Dienste", ""},
     range : RangeFields, trail : {"", "  "}]
    \cup [label : {"", "Titel:"}, code : {"LF12", "12"}, title : {"Grundlagen"},
          range : {[start |-> "", end |-> ""], [start |-> "01.03.2024", end |-> "05.04.2024"]},
          trail : {""}]

\* What follows the Titel line.
TailFields == {"", "\nSeite 1", "\n01.03.2024-05.04.2024\n"}

HeaderFields ==
    [datum : DatumFields, sep : {"\n", " ... "}, titel : TitelFields, tail : TailFields]

RenderRange(r) ==
    IF r.start = "" THEN "" ELSE " " \o r.start \o "-" \o r.end

RenderTitel(t) ==
    t.label \o t.code \o (IF t.title = "" THEN "" ELSE " " \o t.title)
        \o RenderRange(t.range) \o t.trail

Render(f) ==
    f.datum.label \o f.datum.date \o f.sep \o RenderTitel(f.titel) \o f.tail

\* "Datum: 05.03.2024 ... Titel: LF12 Grundlagen 01.03.2024-05.04.2024"
SampleFields ==
    [datum |-> [label |-> "Datum: ", date |-> "05.03.2024"],
     sep |-> " ... ",
     titel |-> [label |-> "Titel: ", code |-> "LF12", title |-> "Grundlagen",
                range |-> [start |-> "01.03.2024", end |-> "05.04.2024"],
                trail |-> ""],
     tail |-> ""]
SampleWords == <<Word("1", 30, 100), Word("Thema", 74, 100)>>

\* The headers of the whole-document runs: complete, without Datum label,
\* with an impossible date.
DocFields ==
    {SampleFields,
     [SampleFields EXCEPT !.datum.label = ""],
     [SampleFields EXCEPT !.datum.date = "31.02.2024"]}

\* The documents that are stored: two units on one day, one unit on two
\* days; a page of one row, and a page of two rows with two instructors.
MaxStores == 3
MaxRuns == 2
MaxFailures == 1
StoreHeaders ==
    {SampleFields,
     [SampleFields EXCEPT !.titel.code = "LF-3a", !.titel.title = "Netze und  Dienste"],
     [SampleFields EXCEPT !.datum.date = "29.02.2024"]}
StorePages ==
    {<<Word("1", 30, 100), Word("Thema", 74, 100), Word("Meier,", 459, 100), Word("Anna", 500, 100)>>,
     <<Word("1", 30, 100), Word("2", 30, 200), Word("Inhalt", 358, 200), Word("Meier,", 459, 100)>>}
StoreDocuments == {extract_pdf(Render(f), ws).val : f \in StoreHeaders, ws \in StorePages}

\* The files of a batch: two that extract, one without Datum label, one
\* without slot number, one that does not exist.
MaxBatch == 3
BatchFiles ==
    {[name |-> "a.pdf", exists |-> TRUE, text |-> Render(SampleFields),
      words |-> <<Word("1", 30, 100), Word("Thema", 74, 100), Word("Meier,", 459, 100), Word("Anna", 500, 100)>>],
     [name |-> "b.pdf", exists |-> TRUE,
      text |-> Render([SampleFields EXCEPT !.titel.code = "LF-3a", !.titel.title = "Netze und  Dienste"]),
      words |-> <<Word("1", 30, 100), Word("2", 30, 200), Word("Inhalt", 358, 200), Word("Meier,", 459, 100)>>],
     [name |-> "c.pdf", exists |-> TRUE, text |-> Render([SampleFields EXCEPT !.datum.label = ""]),
      words |-> SampleWords],
     [name |-> "d.pdf", exists |-> TRUE, text |-> Render(SampleFields),
      words |-> <<Word("Thema", 74, 100)>>],
     [name |-> "e.pdf", exists |-> FALSE, text |-> "", words |-> <<>>]}

(***************************************************************************)
(* The calls                                                               *)
(***************************************************************************)
(***************************************************************************)
(* Inputs: the Lerntage fetch_all reads from the database                  *)
(***************************************************************************)
MaxLerntage == 3
MaxEinheiten == 12

\* Monday, Tuesday, Friday and Saturday of ISO week 1 of 2025, which begins
\* in 2024, and the Monday of week 2.
SheetDates ==
    {[year |-> 2024, month |-> 12, day |-> 30], [year |-> 2024, month |-> 12, day |-> 31],
     [year |-> 2025, month |-> 1, day |-> 3], [year |-> 2025, month |-> 1, day |-> 4],
     [year |-> 2025, month |-> 1, day |-> 6]}

\* ORDER BY stunde: n units in the slots 1..n; every third one has no text
\* (inhalt is NULL, read as "").
EinheitenUpTo(n) ==
    [k \in 1..n |-> [stunde |-> k,
                     inhalt |-> IF k % 3 = 0 THEN "" ELSE "Thema " \o str_int(k)]]

\* What one Lerntag refers to: a day without Lernfeld, Dozent and units, a
\* day of two units in the slots 2 and 5, and days of _ROWS_PER_DAY and of
\* MaxEinheiten units.
DayPool ==
    {[lernfeld |-> <<>>, dozent |-> <<>>, einheiten |-> <<>>],
     [lernfeld |-> <<[lernfeld_id |-> "LF1", titel |-> "Netzwerke"]>>,
      dozent |-> <<[dozent_id |-> 1, vorname |-> "Anna", nachname |-> "Schmidt"]>>,
      einheiten |-> <<[stunde |-> 2, inhalt |-> "Netzwerke"],
                      [stunde |-> 5, inhalt |-> "Subnetting"]>>],
     [lernfeld |-> <<[lernfeld_id |-> "LF2", titel |-> "Datenbanken"]>>,
      dozent |-> <<[dozent_id |-> 2, vorname |-> "Max", nachname |-> "Weber"]>>,
      einheiten |-> EinheitenUpTo(_ROWS_PER_DAY)],
     [lernfeld |-> <<[lernfeld_id |-> "LF2", titel |-> "Datenbanken"]>>,
      dozent |-> <<>>,
      einheiten |-> EinheitenUpTo(MaxEinheiten)]}

\* The list fetch_all returns: one Lerntag per datum (lerntag.datum is
\* unique), the ids of the rows distinct.
LerntageOf(dates, content) ==
    [i \in 1..Len(dates) |->
        [lerntag_id |-> i, datum |-> dates[i],
         lernfeld |-> content[i].lernfeld, dozent |-> content[i].dozent,
         einheiten |-> [k \in 1..Len(content[i].einheiten) |->
             [einheit_id |-> MaxEinheiten * (i - 1) + k,
              stunde |-> content[i].einheiten[k].stunde,
              inhalt |-> content[i].einheiten[k].inhalt]]]]

\* ORDER BY datum: the dates of the list ascend.
LerntagLists ==
    LET in_order(D) ==
            [n \in 1..Cardinality(D) |->
                CHOOSE d \in D :
                    Cardinality({e \in D : toordinal(e) < toordinal(d)}) = n - 1]
    IN  UNION {{LerntageOf(in_order(D), content) : content \in [1..Cardinality(D) -> DayPool]} :
               D \in {D \in SUBSET SheetDates : Cardinality(D) <= MaxLerntage}}

NoCalls ==
    /\ header = NotCalled
    /\ rows = NotCalled
    /\ boundaries = <<>>
    /\ pdf_data = NotCalled
    /\ dozent_text = None
    /\ dozent = NotCalled
    /\ db = EmptyDb
    /\ cache = make_db_cache
    /\ run = 1
    /\ stored = <<>>
    /\ affected = NotCalled
    /\ failed = <<>>
    /\ dozent_ids = {}
    /\ path_index = 1
    /\ print_state = PrintState
    /\ all_statements = <<>>
    /\ week_nr = 1
    /\ sheet = Template
    /\ cell_writes = <<>>
    /\ berichtsheft = NotCalled

\* header = parse_header(text)
ParseHeader ==
    /\ header = NotCalled
    /\ header' = parse_header(text)
    /\ UNCHANGED <<fields, text, words, rows, boundaries, pdf_data>>
    /\ UNCHANGED <<nameVars, storeVars, batchVars, sheetVars>>

\* rows = parse_rows_from_page(page)
ParseRows ==
    /\ rows = NotCalled
    /\ rows' = parse_rows_from_page(words)
    /\ boundaries' = BoundariesOf(words)
    /\ UNCHANGED <<fields, text, words, header, pdf_data>>
    /\ UNCHANGED <<nameVars, storeVars, batchVars, sheetVars>>

\* pdf_data = extract_pdf(pdf_path)
ExtractPdf ==
    /\ pdf_data = NotCalled
    /\ pdf_data' = extract_pdf(text, words)
    /\ UNCHANGED <<fields, text, words, header, rows, boundaries>>
    /\ UNCHANGED <<nameVars, storeVars, batchVars, sheetVars>>

\* nachname, vorname = _first_dozent(cell_words)
FirstDozent ==
    /\ dozent = NotCalled
    /\ dozent_text' = InstructorText(cell_words)
    /\ dozent' = Return(_first_dozent(cell_words))
    /\ UNCHANGED <<cell_words, extractVars, storeVars, batchVars, sheetVars>>

\* connector.execute_pdf(pdf_data, db_cache) returns: the statements of
\* execute_pdf_into_db are committed.
ExecutePdf ==
    /\ Len(stored) + Len(failed) < MaxStores
    /\ \E pdf \in StoreDocuments :
       \E dozent_order \in IterationOrders(DozentKeys(pdf.rows)) :
           LET r == execute_pdf_into_db(pdf, db, cache, dozent_order)
           IN  /\ db' = r.db
               /\ cache' = r.cache
               /\ affected' = Return(r.affected)
               /\ dozent_ids' = dozent_ids \cup Returned(r.cache)
               /\ stored' = Append(stored, [pdf |-> pdf, run |-> run])
    /\ UNCHANGED <<run, failed, extractVars, nameVars, batchVars, sheetVars>>

\* connector.execute_pdf(pdf_data, db_cache) raises: the fail_at-th call of
\* cur.execute, or conn.commit() behind the last of them, raised
\* psycopg2.Error and conn.rollback() ran.
ExecutePdfRaises ==
    /\ Len(failed) < MaxFailures
    /\ Len(stored) + Len(failed) < MaxStores
    /\ \E pdf \in StoreDocuments :
       \E dozent_order \in IterationOrders(DozentKeys(pdf.rows)) :
       \E fail_at \in 1..CallsOf(pdf, db, cache, dozent_order) :
           LET r == execute_pdf(pdf, db, cache, dozent_order, fail_at)
           IN  /\ db' = r.db
               /\ cache' = r.cache
               /\ affected' = r.outcome
               /\ dozent_ids' = dozent_ids \cup Returned(r.cache)
               /\ failed' = Append(failed, [pdf |-> pdf, run |-> run, fail_at |-> fail_at])
    /\ UNCHANGED <<run, stored, extractVars, nameVars, batchVars, sheetVars>>

\* main() is started again on the same database: db_cache = make_db_cache()
NewRun ==
    /\ run < MaxRuns
    /\ \/ stored # <<>> /\ stored[Len(stored)].run = run
       \/ failed # <<>> /\ failed[Len(failed)].run = run
    /\ run' = run + 1
    /\ cache' = make_db_cache
    /\ UNCHANGED <<db, stored, affected, failed, dozent_ids, extractVars, nameVars, batchVars, sheetVars>>

\* One pass of `for path in pdf_paths` in main.
ProcessPdf ==
    /\ path_index <= Len(pdf_paths)
    /\ LET path == pdf_paths[path_index]
           sh == [db |-> db, cache |-> cache, affected |-> affected,
                  print_state |-> print_state, all_statements |-> all_statements]
           keys(ex) == IF path.exists /\ ex.ok THEN DozentKeys(ex.val.rows) ELSE {}
           left(r) ==
               /\ pdf_data' = r.pdf_data
               /\ db' = r.sh.db
               /\ cache' = r.sh.cache
               /\ affected' = r.sh.affected
               /\ dozent_ids' = dozent_ids \cup Returned(r.sh.cache)
               /\ print_state' = r.sh.print_state
               /\ all_statements' = r.sh.all_statements
               /\ stored' = IF r.pdf_data.ok /\ use_db
                            THEN Append(stored, [pdf |-> r.pdf_data.val, run |-> run])
                            ELSE stored
       IN  \E dozent_order \in IterationOrders(keys(extract_pdf(path.text, path.words))) :
               left(main_loop_body(path, use_db, sh, dozent_order))
    /\ path_index' = path_index + 1
    /\ UNCHANGED <<fields, text, words, header, rows, boundaries, run, failed, pdf_paths, use_db, nameVars, sheetVars>>

\* One pass of the loop of create_all_berichtshefte: the report of the
\* week_nr-th calendar week found in the data.  A call that raises ends
\* the loop.
CreateBerichtsheft ==
    /\ berichtsheft.ok \/ berichtsheft = NotCalled
    /\ week_nr <= Len(sorted_weeks(group_by_calendar_week(fetched)))
    /\ LET r == create_berichtsheft(fetched,
                    sorted_weeks(group_by_calendar_week(fetched))[week_nr],
                    week_nr, template_found)
       IN  /\ sheet' = r.ws
           /\ cell_writes' = r.writes
           /\ berichtsheft' = r.outcome
    /\ week_nr' = week_nr + 1
    /\ UNCHANGED <<fetched, template_found, extractVars, nameVars, storeVars, batchVars>>

\* One document: any of the three calls, each once.
Init ==
    /\ fields \in DocFields
    /\ text = Render(fields)
    /\ words \in SeqsUpTo(DocWordPool, MaxDocWords)
    /\ cell_words = <<>>
    /\ pdf_paths = <<>>
    /\ use_db = FALSE
    /\ fetched = <<>>
    /\ template_found = FALSE
    /\ NoCalls

Next == ParseHeader \/ ParseRows \/ ExtractPdf

Spec == Init /\ [][Next]_vars

\* parse_rows_from_page on every page of up to MaxWords words.
InitRows ==
    /\ fields = SampleFields
    /\ text = Render(fields)
    /\ words \in SeqsUpTo(WordPool, MaxWords)
    /\ cell_words = <<>>
    /\ pdf_paths = <<>>
    /\ use_db = FALSE
    /\ fetched = <<>>
    /\ template_found = FALSE
    /\ NoCalls

NextRows == ParseRows

SpecRows == InitRows /\ [][NextRows]_vars

\* parse_header on every header text.
InitHeader ==
    /\ fields \in HeaderFields
    /\ text = Render(fields)
    /\ words = SampleWords
    /\ cell_words = <<>>
    /\ pdf_paths = <<>>
    /\ use_db = FALSE
    /\ fetched = <<>>
    /\ template_found = FALSE
    /\ NoCalls

NextHeader == ParseHeader

SpecHeader == InitHeader /\ [][NextHeader]_vars

\* _first_dozent on every instructor cell of up to MaxNameWords words.
InitDozent ==
    /\ fields = SampleFields
    /\ text = Render(fields)
    /\ words = SampleWords
    /\ cell_words \in SeqsUpTo(NameTokens, MaxNameWords)
    /\ pdf_paths = <<>>
    /\ use_db = FALSE
    /\ fetched = <<>>
    /\ template_found = FALSE
    /\ NoCalls

NextDozent == FirstDozent

SpecDozent == InitDozent /\ [][NextDozent]_vars

\* Runs of main() that store documents in an empty database.
InitStore ==
    /\ fields = SampleFields
    /\ text = Render(fields)
    /\ words = SampleWords
    /\ cell_words = <<>>
    /\ pdf_paths = <<>>
    /\ use_db = FALSE
    /\ fetched = <<>>
    /\ template_found = FALSE
    /\ NoCalls

NextStore == ExecutePdf \/ NewRun

SpecStore == InitStore /\ [][NextStore]_vars

\* The same runs with up to MaxFailures calls that raise among them.
NextFail == ExecutePdf \/ ExecutePdfRaises \/ NewRun

SpecFail == InitStore /\ [][NextFail]_vars

\* main on every batch of up to MaxBatch files, storing or printing.
InitBatch ==
    /\ fields = SampleFields
    /\ text = Render(fields)
    /\ words = SampleWords
    /\ cell_words = <<>>
    /\ pdf_paths \in SeqsUpTo(BatchFiles, MaxBatch)
    /\ use_db \in BOOLEAN
    /\ fetched = <<>>
    /\ template_found = FALSE
    /\ NoCalls

NextBatch == ProcessPdf

SpecBatch == InitBatch /\ [][NextBatch]_vars

\* create_all_berichtshefte on every list of up to MaxLerntage Lerntage,
\* with and without the template file.
InitSheet ==
    /\ fields = SampleFields
    /\ text = Render(fields)
    /\ words = SampleWords
    /\ cell_words = <<>>
    /\ pdf_paths = <<>>
    /\ use_db = FALSE
    /\ fetched \in LerntagLists
    /\ template_found \in BOOLEAN
    /\ NoCalls

NextSheet == CreateBerichtsheft

SpecSheet == InitSheet /\ [][NextSheet]_vars

(***************************************************************************)
(* Reading the inputs, independently of the code under check               *)
(***************************************************************************)
RECURSIVE StripZeros(_)
StripZeros(t) ==
    IF t # "" /\ char(t, 1) = "0" THEN StripZeros(Slice(t, 2, Len(t))) ELSE t

NonZeroDigits == {"1", "2", "3", "4", "5", "6", "7", "8", "9"}

InStundeBand(w) == 30 <= w.x0 /\ w.x0 < 74

\* A decimal digit string (leading zeros allowed) that denotes 1..9.
DenotesSlot(t) ==
    /\ t # ""
    /\ \A i \in 1..Len(t) : char(t, i) \in DecimalDigits
    /\ StripZeros(t) \in NonZeroDigits

\* The slot number such a text denotes.
SlotOf(t) == CHOOSE n \in 1..9 : char("123456789", n) = StripZeros(t)

\* The positions of the words that are slot-number anchors.
AnchorIndexes == {i \in 1..Len(words) : DenotesSlot(words[i].text) /\ InStundeBand(words[i])}

\* The top of the anchor of slot n that comes first in the word list.
FirstTop(n) ==
    LET idx == {i \in AnchorIndexes : SlotOf(words[i].text) = n}
    IN  words[SetMin(idx)].top

AnchorSlots == {SlotOf(words[i].text) : i \in AnchorIndexes}

\* The members of the set S of numbers as an ascending sequence.
RECURSIVE Ascending(_)
Ascending(S) ==
    IF S = {} THEN <<>> ELSE <<SetMin(S)>> \o Ascending(S \ {SetMin(S)})

RowSlots == {rows.val[i].stunde : i \in 1..Len(rows.val)}

(***************************************************************************)
(* Row Boundary Locator                                                    *)
(***************************************************************************)
\* C1: the rows that parse_rows_from_page returns have pairwise distinct slot
\* numbers, each in 1..9, in strictly ascending order, whatever the order and
\* the vertical positions of the anchors in the word list.
C1_SlotsAscending ==
    rows.ok =>
        /\ \A i \in 1..Len(rows.val) : rows.val[i].stunde \in 1..9
        /\ \A i, j \in 1..Len(rows.val) :
               i < j => rows.val[i].stunde < rows.val[j].stunde

\* Three rows from anchors that come in descending slot order in the list and
\* whose tops do not ascend with the slot number.
C1_Witness ==
    /\ rows.ok
    /\ Len(rows.val) = 3
    /\ Len(words) = 3
    /\ words[1].text = "3" /\ words[2].text = "2" /\ words[3].text = "1"
    /\ words[3].top > words[2].top

\* C2: the row spans are contiguous, each has y-start <= y-end (so they are
\* pairwise disjoint), and they cover exactly [first_anchor_y - 30,
\* table_bottom], table_bottom being the largest bottom below the cutoff 650.
C2_SpansPartition ==
    rows.ok =>
        LET b == boundaries
            n == Len(b)
            below == {words[i].bottom : i \in {j \in 1..Len(words) : words[j].bottom < 650}}
        IN  /\ n = Len(rows.val)
            /\ \A i \in 1..n : b[i][2] <= b[i][3]
            /\ \A i \in 1..(n - 1) : b[i][3] = b[i + 1][2]
            /\ b[1][2] = FirstTop(SetMin(AnchorSlots)) - 30
            /\ below # {} => b[n][3] = SetMax(below)

\* C3: no word whose text is an entry of HEADER_NOISE contributes to a row's
\* content or to its instructor names: every row is what the words of its
\* span give once the denylisted words are left out.
C3_NoNoiseInRows ==
    rows.ok =>
        \A i \in 1..Len(rows.val) :
            LET y0 == boundaries[i][2]
                y1 == boundaries[i][3]
                Kept(x0, x1) ==
                    LET idx == {j \in 1..Len(words) :
                                   /\ x0 <= words[j].x0 /\ words[j].x0 < x1
                                   /\ y0 <= words[j].top /\ words[j].top < y1
                                   /\ words[j].text \notin HEADER_NOISE}
                        order == Ascending(idx)
                    IN  [k \in 1..Len(order) |-> words[order[k]].text]
                name == _first_dozent(Kept(459, 549))
            IN  /\ rows.val[i].inhalt = join(" ", Kept(74, 359))
                /\ rows.val[i].dozent_nachname = name[1]
                /\ rows.val[i].dozent_vorname = name[2]
                /\ rows.val[i].dozent_nachname \notin HEADER_NOISE
                /\ rows.val[i].dozent_vorname \notin HEADER_NOISE

\* C4 as claimed: a word is an anchor iff its text is one character, a digit
\* 1..9, and its x0 lies in [30, 74); "01" never produces a row.
C4_AnchorIffSingleDigit ==
    rows.ok =>
        RowSlots = {SlotOf(words[i].text) :
                       i \in {j \in 1..Len(words) :
                                 words[j].text \in NonZeroDigits /\ InStundeBand(words[j])}}

\* C4, amended: whenever rows are returned, their slots are exactly the values
\* of the words whose text is a string of decimal digits denoting 1..9
\* (leading zeros allowed: "1", "01") and whose x0 lies in [30, 74); any other
\* text ("0", "10", non-digits) and any x0 outside the band produce no row.
C4_AnchorIffValueInRange ==
    rows.ok => RowSlots = AnchorSlots

\* A row 1 that exists only because of the word "01".
C4_Witness ==
    /\ rows.ok
    /\ 1 \in RowSlots
    /\ \E i \in 1..Len(words) : words[i].text = "01"
    /\ \A i \in 1..Len(words) : words[i].text # "1"

\* C5: of several anchors with the same slot number, the row uses the top of
\* the one that comes first in the word list, although the code sorts by slot
\* number before it deduplicates.
C5_FirstOccurrenceWins ==
    rows.ok =>
        LET slots == Ascending(AnchorSlots)
        IN  boundaries =
                Boundaries([k \in 1..Len(slots) |-> <<slots[k], FirstTop(slots[k])>>],
                           table_bottom(words))

\* Two anchors of one slot, the first in the list being the lower one on the page.
C5_Witness ==
    /\ rows.ok
    /\ \E i, j \in AnchorIndexes :
           /\ i < j
           /\ SlotOf(words[i].text) = SlotOf(words[j].text)
           /\ words[i].top > words[j].top

(***************************************************************************)
(* Document Extractor                                                      *)
(***************************************************************************)
\* C6: without a valid anchor, row extraction fails with the no-rows-found
\* error, extract_pdf propagates it and returns no record; so every record
\* that extract_pdf returns has at least one row.
C6_NoAnchorNoRecord ==
    /\ (AnchorIndexes = {} /\ rows # NotCalled) => rows = Raise(ErrNoStunde)
    /\ (AnchorIndexes = {} /\ pdf_data # NotCalled) =>
           /\ ~pdf_data.ok
           /\ parse_header(text).ok => pdf_data = Raise(ErrNoStunde)
    /\ pdf_data.ok => Len(pdf_data.val.rows) >= 1

(***************************************************************************)
(* Header Extractor                                                        *)
(***************************************************************************)
\* The page shows the label "Datum:" followed by a token of the shape dd.mm.yyyy.
HasDatum == fields.datum.label # "" /\ fields.datum.date \in ShapedDates

\* The Titel line is the label "Titel:", an LF code and title words.
TitleOnLine ==
    /\ fields.titel.label # ""
    /\ Slice(fields.titel.code, 1, 2) = "LF"
    /\ fields.titel.title # ""

\* The page shows the label "Titel:" followed by an LF code and a title: the
\* title words of the Titel line or, failing them, the text of the next line.
HasTitel ==
    /\ fields.titel.label # ""
    /\ Slice(fields.titel.code, 1, 2) = "LF"
    /\ \/ fields.titel.title # ""
       \/ fields.titel.range.start = "" /\ fields.tail = "\nSeite 1"

\* dd.mm.yyyy rewritten as yyyy-mm-dd.
Iso(d) == Slice(d, 7, 10) \o "-" \o Slice(d, 4, 5) \o "-" \o Slice(d, 1, 2)

\* The range the header yields: the one on the Titel line or, if that line has
\* none, the one that stands alone on the line after it.
TailRange ==
    IF fields.tail = "\n01.03.2024-05.04.2024\n"
    THEN [start |-> "01.03.2024", end |-> "05.04.2024"]
    ELSE [start |-> "", end |-> ""]

DateErrors == {ErrDateFormat, ErrDateRange}

\* C7: parse_header fails with the date-missing error when no "Datum:" label
\* with a dd.mm.yyyy token is there, and with the title-missing error when
\* the date is there but no "Titel:" label with LF code and title; no header
\* is returned in either case.
C7_MissingFieldErrors ==
    header # NotCalled =>
        /\ ~HasDatum => header = Raise(ErrDatum)
        /\ (HasDatum /\ ~HasTitel) => header = Raise(ErrTitel)

\* C8 as claimed: a header, the date-missing error or the title-missing error
\* are the only outcomes, and a Datum token of the shape dd.mm.yyyy with a
\* matching Titel line always gives a header with the date as yyyy-mm-dd.
C8_ThreeOutcomes ==
    header # NotCalled =>
        /\ header.ok \/ header.err \in {ErrDatum, ErrTitel}
        /\ (HasDatum /\ HasTitel) =>
               header.ok /\ header.val.datum = Iso(fields.datum.date)

\* The Datum token and the dates of the range the header yields are calendar dates.
DatesAreCalendarDates ==
    LET r == IF fields.titel.range.start # "" THEN fields.titel.range ELSE TailRange
    IN  /\ fields.datum.date \in CalendarDates
        /\ r.start # "" => r.start \in CalendarDates
        /\ r.end # "" => r.end \in CalendarDates

\* C8, amended: there is a fourth outcome, the ValueError of parse_date, when
\* the Datum token or a range date has the shape dd.mm.yyyy but is no
\* calendar date; with Datum token, matching Titel line and calendar dates
\* throughout, the header is returned with the date as yyyy-mm-dd.
C8_FourOutcomes ==
    header # NotCalled =>
        /\ header.ok \/ header.err \in {ErrDatum, ErrTitel} \cup DateErrors
        /\ (~header.ok /\ header.err \in DateErrors) => ~DatesAreCalendarDates
        /\ (HasDatum /\ HasTitel /\ DatesAreCalendarDates) =>
               header.ok /\ header.val.datum = Iso(fields.datum.date)

\* A header for the leap day, and none for 31.02.2024.
C8_Witness ==
    /\ header.ok
    /\ fields.datum.date = "29.02.2024"
    /\ header.val.datum = "2024-02-29"
    /\ fields.titel.range.start # ""

\* C9: a returned header has a date and a unit identifier, and an end date
\* only together with a start date.
C9_HeaderFieldsPresent ==
    header.ok =>
        /\ header.val.datum # None /\ Len(header.val.datum) = 10
        /\ header.val.lernfeld_id # None /\ Len(header.val.lernfeld_id) >= 2
        /\ header.val.end_datum # None => header.val.start_datum # None

\* A header with a start date and no end date.
C9_Witness ==
    /\ header.ok
    /\ header.val.start_datum # None
    /\ header.val.end_datum = None

\* What C10 says of a header with Datum and a Titel line of LF code, title
\* words and the range r.
TitelLineYields(r) ==
    /\ header.ok
    /\ header.val.lernfeld_id = fields.titel.code
    /\ header.val.titel = fields.titel.title
    /\ header.val.start_datum = (IF r.start = "" THEN None ELSE Iso(r.start))
    /\ header.val.end_datum = (IF r.end = "" THEN None ELSE Iso(r.end))

\* The Titel line carries a full range, or none.
FullOrNoRange ==
    (fields.titel.range.start = "") = (fields.titel.range.end = "")

CommaPositions(t) == {i \in 1..Len(t) : char(t, i) = ","}
HasComma(t) == CommaPositions(t) # {}
LastNameOf(t) == strip(Slice(t, 1, SetMin(CommaPositions(t)) - 1))
WordsAfterComma(t) == split(Slice(t, SetMin(CommaPositions(t)) + 1, Len(t)))
\* The words of ws in front of the first one that equals w; all, if none does.
LeadingWords(ws, w) ==
    LET hits == {k \in 1..Len(ws) : ws[k] = w}
    IN  IF hits = {} THEN ws ELSE SubSeq(ws, 1, SetMin(hits) - 1)

\* C11: when the instructor text holds a comma, the last name is the trimmed
\* text before the first comma, and the first name is the words behind that
\* comma up to, and without, the first word that equals the last name.
C11_CommaSplit ==
    (dozent.ok /\ HasComma(dozent_text)) =>
        dozent.val =
            <<LastNameOf(dozent_text),
              join(" ", LeadingWords(WordsAfterComma(dozent_text), LastNameOf(dozent_text)))>>

\* "Schmidt, Anna Schmidt" was split into ("Schmidt", "Anna").
C11_Witness ==
    /\ dozent.ok
    /\ cell_words = <<"Schmidt,", "Anna", "Schmidt">>
    /\ dozent_text = "Schmidt, Anna Schmidt"
    /\ dozent.val = <<"Schmidt", "Anna">>

\* C12: when the instructor text is not empty and holds no comma, the last
\* name is its last word and the first name is the words before it, joined
\* by single spaces.
C12_NoCommaSplit ==
    (dozent.ok /\ dozent_text # "" /\ ~HasComma(dozent_text)) =>
        LET ws == split(dozent_text)
        IN  /\ ws # <<>>
            /\ dozent.val = <<ws[Len(ws)], join(" ", SubSeq(ws, 1, Len(ws) - 1))>>

\* "Anna Mueller Schmidt" was split into ("Schmidt", "Anna Mueller").
C12_Witness ==
    /\ dozent.ok
    /\ cell_words = <<"Anna", "Mueller", "Schmidt">>
    /\ dozent.val = <<"Schmidt", "Anna Mueller">>

\* C13: the call returns, for every word list, a pair of strings, and the
\* pair ("", "") when the list is empty or holds nothing but "Dozent".
OnlyLabels(ws) == \A k \in 1..Len(ws) : ws[k] = "Dozent"
C13_Total ==
    dozent # NotCalled =>
        /\ dozent.ok
        /\ Len(dozent.val) = 2
        /\ dozent.val[1] \in STRING
        /\ dozent.val[2] \in STRING
        /\ OnlyLabels(cell_words) => dozent.val = <<"", "">>

\* A list of two labels came back as ("", "").
C13_Witness ==
    /\ dozent.ok
    /\ cell_words = <<"Dozent", "Dozent">>
    /\ dozent.val = <<"", "">>

\* C14: the words of the instructor text are the words of the list that are
\* not exactly "Dozent"; a longer word that holds "Dozent" is kept whole.
RECURSIVE WithoutLabel(_)
WithoutLabel(ws) ==
    IF ws = <<>> THEN <<>>
    ELSE IF Head(ws) = "Dozent" THEN WithoutLabel(Tail(ws))
    ELSE <<Head(ws)>> \o WithoutLabel(Tail(ws))
C14_OnlyWholeLabelRemoved ==
    dozent.ok => split(dozent_text) = WithoutLabel(cell_words)
(***************************************************************************)
(* The Column Text Assembler                                               *)
(***************************************************************************)
\* The positions in the word list of the words that make up the content of
\* a row with span [y0, y1).
ContentIndexes(y0, y1) ==
    {j \in 1..Len(words) :
        /\ 74 <= words[j].x0 /\ words[j].x0 < 359
        /\ y0 <= words[j].top /\ words[j].top < y1
        /\ words[j].text \notin HEADER_NOISE}

\* C15: the content of every row is the texts of exactly the words with
\* 74 <= x0 < 359 and y-start <= top < y-end that are no denylist entries,
\* in the order of the word list, joined by single spaces.
C15_ContentInListOrder ==
    rows.ok =>
        \A i \in 1..Len(rows.val) :
            LET order == Ascending(ContentIndexes(boundaries[i][2], boundaries[i][3]))
            IN  rows.val[i].inhalt = join(" ", [k \in 1..Len(order) |-> words[order[k]].text])

\* A row took "Inhalt" (top 200) before "Thema" (top 100 or 150), as listed.
C15_Witness ==
    /\ rows.ok
    /\ \E i \in 1..Len(rows.val) : rows.val[i].inhalt = "Inhalt Thema"
    /\ \E j \in 1..Len(words) : words[j].text = "Inhalt" /\ words[j].top = 200
(***************************************************************************)
(* Persistence                                                             *)
(***************************************************************************)
\* The documents stored so far.
StoredBefore == {stored[i].pdf : i \in 1..Len(stored)}

SlotsOfPdf(pdf) == {pdf.rows[k].stunde : k \in 1..Len(pdf.rows)}
ContentOf(pdf, slot) ==
    pdf.rows[CHOOSE k \in 1..Len(pdf.rows) : pdf.rows[k].stunde = slot].inhalt
\* The first stored document of a unit id, a date and a slot.
FirstStored(unit, date, slot) ==
    stored[SetMin({j \in 1..Len(stored) :
                      /\ stored[j].pdf.header.lernfeld_id = unit
                      /\ stored[j].pdf.header.datum = date
                      /\ slot \in SlotsOfPdf(stored[j].pdf)})].pdf

\* C18: for every unit id, date and slot of a stored document the database
\* holds a lesson unit of that slot on a lesson day of that date and of that
\* unit id, with the content of the first document stored under that key.
C18_KeyedByUnitDateSlot ==
    \A i \in 1..Len(stored) :
        LET h == stored[i].pdf.header
        IN  \A slot \in SlotsOfPdf(stored[i].pdf) :
                \E lt \in db.lerntag, u \in db.unterrichtseinheit :
                    /\ lt.datum = h.datum
                    /\ lt.lernfeld_id = h.lernfeld_id
                    /\ u.lerntag_id = lt.lerntag_id
                    /\ u.stunde = slot
                    /\ u.inhalt = ContentOf(FirstStored(h.lernfeld_id, h.datum, slot), slot)
(***************************************************************************)
(* The batch loop                                                          *)
(***************************************************************************)
\* The files of a list that exist and extract.
RECURSIVE Extracting(_)
Extracting(paths) ==
    IF paths = <<>> THEN <<>>
    ELSE IF Head(paths).exists /\ extract_pdf(Head(paths).text, Head(paths).words).ok
    THEN <<Head(paths)>> \o Extracting(Tail(paths))
    ELSE Extracting(Tail(paths))

\* What printing a list of extracting files, one after the other, leaves in
\* [print_state, all_statements].
RECURSIVE Printed(_, _)
Printed(paths, acc) ==
    IF paths = <<>> THEN acc
    ELSE LET b == build_print_statements(
                      extract_pdf(Head(paths).text, Head(paths).words).val, acc.print_state)
         IN  Printed(Tail(paths),
                     [print_state |-> b.state,
                      all_statements |->
                          acc.all_statements \o <<"-- Source: " \o Head(paths).name>>
                              \o b.stmts \o <<"">>])

\* C19: a pass of the loop whose extraction fails moves on to the next file
\* and leaves the database, the cache, the PrintState and the statements as
\* they are; and the statements printed for the files passed so far are
\* those of the same files without the failing ones.
C19_FailingDocumentSkipped ==
    /\ [][(path_index' # path_index /\ pdf_data' # NotCalled /\ ~pdf_data'.ok)
            => /\ path_index' = path_index + 1
               /\ UNCHANGED <<db, cache, print_state, all_statements>>]_vars
    /\ [](~use_db =>
            [print_state |-> print_state, all_statements |-> all_statements]
                = Printed(Extracting(SubSeq(pdf_paths, 1, path_index - 1)),
                          [print_state |-> PrintState, all_statements |-> <<>>]))

\* The batch a.pdf, c.pdf, b.pdf was printed to its end: c.pdf failed, and the
\* statements of b.pdf follow those of a.pdf.
C19_Witness ==
    /\ ~use_db
    /\ path_index = 4
    /\ [i \in 1..Len(pdf_paths) |-> pdf_paths[i].name] = <<"a.pdf", "c.pdf", "b.pdf">>
    /\ \E i, j \in 1..Len(all_statements) :
           i < j /\ all_statements[i] = "-- Source: a.pdf" /\ all_statements[j] = "-- Source: b.pdf"
    /\ \A i \in 1..Len(all_statements) : all_statements[i] # "-- Source: c.pdf"
(***************************************************************************)
(* The repeated name                                                       *)
(***************************************************************************)
\* A word of letters that is not the column label; such a word with a comma
\* behind it.
IsNameWord(t) ==
    /\ t # "" /\ t # "Dozent"
    /\ \A i \in 1..Len(t) : char(t, i) \in Letters
IsLastNameToken(t) ==
    /\ Len(t) >= 2
    /\ char(t, Len(t)) = ","
    /\ IsNameWord(Slice(t, 1, Len(t) - 1))

\* C20: a pair "Nachname," "Vorname" followed by the same pair once more is
\* split into the Nachname and the Vorname of the first pair, and nothing of
\* the repetition is in either of them.
C20_RepeatedPairGivesFirstPair ==
    (/\ dozent.ok
     /\ Len(cell_words) = 4
     /\ IsLastNameToken(cell_words[1]) /\ IsNameWord(cell_words[2])
     /\ cell_words[2] \o "," # cell_words[1]
     /\ cell_words[3] = cell_words[1] /\ cell_words[4] = cell_words[2])
        => dozent.val = <<Slice(cell_words[1], 1, Len(cell_words[1]) - 1), cell_words[2]>>
(***************************************************************************)
(* The cache and the database                                              *)
(***************************************************************************)
\* C21: after every call of execute_pdf, returned or raised, every lernfeld
\* id, dozent id, lerntag id and (lernfeld, dozent) pair in the cache is that
\* of a row the database holds.
C21_CacheRefersToRows ==
    /\ \A lf_id \in cache.lernfelder :
           \E r \in db.lernfeld : r.lernfeld_id = lf_id
    /\ \A key \in DOMAIN cache.dozenten :
           \E r \in db.dozent :
               r.dozent_id = cache.dozenten[key] /\ <<r.vorname, r.nachname>> = key
    /\ \A datum \in DOMAIN cache.lerntage :
           \E r \in db.lerntag : r.lerntag_id = cache.lerntage[datum] /\ r.datum = datum
    /\ \A combo \in cache.lf_doz :
           \E r \in db.lernfeld_dozent : <<r.lernfeld_id, r.dozent_id>> = combo
(***************************************************************************)
(* One dozent row and one id per name                                      *)
(***************************************************************************)
\* No two rows of the dozent table have the same (vorname, nachname).
OneRowPerName ==
    \A r1, r2 \in db.dozent :
        (r1.vorname = r2.vorname /\ r1.nachname = r2.nachname) => r1 = r2

RowCount(d) ==
    Cardinality(d.lernfeld) + Cardinality(d.lernfeld_dozent)
        + Cardinality(d.lerntag) + Cardinality(d.unterrichtseinheit)

\* C23: the count a call of execute_pdf returns is the number of rows the call
\* inserted into lernfeld, lernfeld_dozent, lerntag and unterrichtseinheit.
C23_AffectedIsInserted ==
    [][Len(stored') = Len(stored) + 1
          => affected' = Return(RowCount(db') - RowCount(db))]_vars

(***************************************************************************)
(* The weekly report sheet                                                 *)
(***************************************************************************)
\* The Lerntage of the calendar week the last call create_berichtsheft was
\* about.
LastWeekDays ==
    group_by_calendar_week(fetched)[
        sorted_weeks(group_by_calendar_week(fetched))[week_nr - 1]]

\* The first rows of the blocks of Monday to Friday.
BlockFirstRows == <<4, 15, 26, 37, 48>>

\* min(number of lesson units, 11), summed over the Monday-to-Friday days
\* among the first i of `days`.
RECURSIVE UnitsOfWeekdays(_, _)
UnitsOfWeekdays(days, i) ==
    IF i = 0 THEN 0
    ELSE UnitsOfWeekdays(days, i - 1)
         + (IF weekday(days[i].datum) > 4 THEN 0
            ELSE IF Len(days[i].einheiten) > 11 THEN 11
            ELSE Len(days[i].einheiten))

\* The unit of Lerntag lt that has the k-th smallest slot.
UnitInSlotOrder(lt, k) ==
    LET units == {lt.einheiten[i] : i \in 1..Len(lt.einheiten)}
    IN  CHOOSE e \in units : Cardinality({f \in units : f.stunde < e.stunde}) = k - 1

\* The assignments _fill_sheet made in the day blocks, and those to content
\* cells among them.
DayWrites(day_names) == SelectSeq(cell_writes, LAMBDA w : w.pass \in day_names)

ContentWrites == SelectSeq(DayWrites({DayNames[d] : d \in 1..5}), LAMBDA w : w.column = 2)

\* What the block of the d-th weekday must hold for Lerntag lt: its first 11
\* units in ascending slot order, one row each from the block's first row on,
\* the text in column B and 1 in column J.
BlockOf(d, lt, writes) ==
    LET n == IF Len(lt.einheiten) > 11 THEN 11 ELSE Len(lt.einheiten)
    IN  /\ Len(writes) = 2 * n
        /\ \A k \in 1..n :
               /\ writes[2 * k - 1].row = BlockFirstRows[d] + k - 1
               /\ writes[2 * k - 1].column = 2
               /\ writes[2 * k - 1].value = UnitInSlotOrder(lt, k).inhalt
               /\ writes[2 * k].row = BlockFirstRows[d] + k - 1
               /\ writes[2 * k].column = 10
               /\ writes[2 * k].value = 1

\* C24: in a sheet that _fill_sheet has filled, the total in row 59 of column
\* J is the number of content cells written and the sum of min(units, 11)
\* over the week's Monday-to-Friday lesson days; the units of each day stand
\* in ascending slot order in the day's own block of 11 rows, which begins in
\* row 4, 15, 26, 37 or 48; and no cell is written by two days.
C24_SheetOfTheWeek ==
    berichtsheft.ok =>
        /\ sheet.cells[<<59, 10>>] = Len(ContentWrites)
        /\ Cardinality({ContentWrites[i].row : i \in 1..Len(ContentWrites)})
               = Len(ContentWrites)
        /\ Len(ContentWrites) = UnitsOfWeekdays(LastWeekDays, Len(LastWeekDays))
        /\ \A d \in 1..5 :
               LET on_day == {i \in 1..Len(LastWeekDays) :
                                 weekday(LastWeekDays[i].datum) = d - 1}
               IN  IF on_day = {} THEN DayWrites({DayNames[d]}) = <<>>
                   ELSE \A i \in on_day :
                            BlockOf(d, LastWeekDays[i], DayWrites({DayNames[d]}))
        /\ \A i, j \in 1..Len(cell_writes) :
               (/\ cell_writes[i].pass \in {DayNames[d] : d \in 1..5}
                /\ cell_writes[j].pass \in {DayNames[d] : d \in 1..5}
                /\ cell_writes[i].row = cell_writes[j].row
                /\ cell_writes[i].column = cell_writes[j].column)
               => cell_writes[i].pass = cell_writes[j].pass

\* A sheet was filled for a week with a day of more than 11 units, a second
\* weekday with units and a Saturday with units: 11 units of the first day
\* and none of the Saturday count.
C24_Witness ==
    /\ berichtsheft.ok
    /\ \E i, j, k \in 1..Len(LastWeekDays) :
           /\ i # j
           /\ weekday(LastWeekDays[i].datum) <= 4 /\ Len(LastWeekDays[i].einheiten) > 11
           /\ weekday(LastWeekDays[j].datum) <= 4 /\ LastWeekDays[j].einheiten # <<>>
           /\ weekday(LastWeekDays[k].datum) > 4 /\ LastWeekDays[k].einheiten # <<>>
    /\ sheet.cells[<<59, 10>>] > 11
====
